---- MODULE Spec2Model ----
(***************************************************************************)
(* Model of the log anomaly pipeline of the Anomaly_detection_system       *)
(* backend: LogProcessor (services/log_processor.py), EmailService         *)
(* (services/email_service.py), the pattern classifier and the stores of   *)
(* ElasticLogStorage (services/log_storage_es.py), KafkaLogConsumer        *)
(* (utils/kafka_consumer.py) with the application lifespan (main.py), and  *)
(* the simulations of HDFSLogSimulator (utils/log_simulator.py) started by *)
(* the WebSocket route (api/routes.py).                                    *)
(*                                                                         *)
(* Representation.                                                         *)
(*   - A Python string is a non-empty sequence of physical lines (the      *)
(*     pieces between its "\n" characters).  A physical line is a record   *)
(*     of the facts the code can observe about it: the literal substrings  *)
(*     it contains (tokens), what follows "approximately" up to "ms"       *)
(*     (approx), how it begins (lead), what the component regex captures   *)
(*     (component) and what follows its last ": " (exc).  The empty        *)
(*     sequence stands for None.                                           *)
(*   - Scores are fixed point.  Base severities and sentiment scores are   *)
(*     in thousandths (0.75 is 750); a final score base*0.7+sentiment*0.3  *)
(*     is base*7 + sentiment*3, in ten-thousandths (0.525 is 5250).        *)
(***************************************************************************)
EXTENDS Integers, Sequences, FiniteSets, TLC

VARIABLES
    \* LogProcessor.process_logs (one call)
    log_content,      \* the argument: a string, or <<>> for None
    logs,             \* the list the argument is split into
    i,                \* 1-based position of the for loop in logs
    pc,               \* control point of process_logs
    anomaly,          \* the record under construction for logs[i]
    final_score,      \* final_score of the entry in progress, -1 when none
    anomalies,        \* the list being returned
    admin_to,         \* admin_emails resolved for the entry in progress
    \* observations of that call (what a stub capability would record)
    scored,           \* per processed entry: its final_score, or Raised
    classifier_calls, \* the entries classify_anomaly was invoked for
    sends,            \* the send_email calls, in order
    \* ElasticLogStorage.store_anomalies (one call)
    st_anomalies,     \* the argument
    store_pc,         \* "idle", "returned", "raised" or "es_raised"
    bulk_docs,        \* the documents handed to es.bulk
    \* single-entry scoring (process_logs lines 185-217 on one entry)
    sc_log, sc_cls, sc_pc, sc_score,
    sc_level,         \* the log_level argument of line 198
    sc_anomaly,       \* the record of lines 205-217, NoAnomaly when none
    \* single-text pattern classification
    pt_text, pt_pc, pt_out,
    \* one call of classify_anomaly
    cl_result,        \* what self.anomaly_classifier(...) does
    cl_pc,            \* "ready" or "returned"
    cl_out,           \* the dict classify_anomaly returns
    \* a LogProcessor serving successive process_logs calls
    stub,             \* the deterministic capabilities it was given
    history,          \* per finished call: its argument, result and sends
    vector_store,     \* self.vector_store
    \* one notification: format_anomaly_notification, then the HTML part
    nt_type,          \* the anomaly_type argument
    nt_score,         \* the score argument (unrounded), in ten-thousandths
    nt_pc,            \* "ready", "formatted" or "rendered"
    nt_body,          \* the plain-text body: its Type and Severity Score lines
    nt_color,         \* the colour _get_html_content chose, "" before
    \* a KafkaLogConsumer, one call of its consume_logs, and the application
    \* lifespan around it
    _thread,          \* self._thread: "None", "alive" or "finished"
    _running,         \* self._running
    client_closed,    \* self.consumer.close() was called
    co_websocket,     \* the websocket argument: "None" or "attached"
    co_pc,            \* control point of consume_logs
    co_polls,         \* the polls made
    co_logs,          \* the logs of the last poll
    co_raw,           \* the documents store_raw_logs wrote for them
    co_anomalies,     \* what process_logs returned for them
    co_persisted,     \* what store_anomalies was given for them
    app_pc,           \* control point of lifespan
    stop_coro,        \* the coroutine stop() returned: "none", "never awaited"
    health,           \* the last answer of /health on the consumer, "" before
    topic,            \* the messages waiting in the Kafka topic
    \* the shared HDFSLogSimulator and the simulation tasks of two WebSocket
    \* connections
    log_storage,      \* self.log_storage: 0 for None, else the storage's number
    closed,           \* the storages whose close() has returned
    storages,         \* the ElasticLogStorage objects created so far
    started,          \* the simulations started so far
    task,             \* per connection: where its simulation_task is
    handle,           \* per connection: the storage its task is awaiting, 0 if none
    used,             \* per connection: self.log_storage at the task's last use of it
    outcome           \* per connection: why its task left the loop, "" if it has not

vars == << log_content, logs, i, pc, anomaly, final_score, anomalies, admin_to,
           scored, classifier_calls, sends, st_anomalies, store_pc, bulk_docs,
           sc_log, sc_cls, sc_pc, sc_score, sc_level, sc_anomaly,
           pt_text, pt_pc, pt_out, cl_result, cl_pc, cl_out,
           stub, history, vector_store,
           nt_type, nt_score, nt_pc, nt_body, nt_color,
           _thread, _running, client_closed, co_websocket, co_pc, co_polls,
           co_logs, co_raw, co_anomalies, co_persisted, app_pc, stop_coro,
           health, topic,
           log_storage, closed, storages, started, task, handle, used, outcome >>

pipeline_vars == << log_content, logs, i, pc, anomaly, final_score, anomalies,
                    admin_to, scored, classifier_calls, sends >>
store_vars == << st_anomalies, store_pc, bulk_docs >>
score_vars == << sc_log, sc_cls, sc_pc, sc_score, sc_level, sc_anomaly >>
pattern_vars == << pt_text, pt_pc, pt_out >>
classify_vars == << cl_result, cl_pc, cl_out >>
calls_vars == << stub, history, vector_store >>
notify_vars == << nt_type, nt_score, nt_pc, nt_body, nt_color >>
consumer_vars == << _thread, _running, client_closed, co_websocket, co_pc,
                    co_polls, co_logs, co_raw, co_anomalies, co_persisted,
                    app_pc, stop_coro, health, topic >>
sim_vars == << log_storage, closed, storages, started, task, handle, used, outcome >>

\* What each specification leaves alone.
outside_pipeline ==
    << store_vars, score_vars, pattern_vars, classify_vars, calls_vars,
       notify_vars, consumer_vars, sim_vars >>
outside_store ==
    << pipeline_vars, score_vars, pattern_vars, classify_vars, calls_vars,
       notify_vars, consumer_vars, sim_vars >>
outside_score ==
    << pipeline_vars, store_vars, pattern_vars, classify_vars, calls_vars,
       notify_vars, consumer_vars, sim_vars >>
outside_pattern ==
    << pipeline_vars, store_vars, score_vars, classify_vars, calls_vars,
       notify_vars, consumer_vars, sim_vars >>
outside_classify ==
    << pipeline_vars, store_vars, score_vars, pattern_vars, calls_vars,
       notify_vars, consumer_vars, sim_vars >>
outside_calls ==
    << store_vars, score_vars, pattern_vars, classify_vars, notify_vars,
       consumer_vars, sim_vars >>
outside_consumer ==
    << pipeline_vars, store_vars, score_vars, pattern_vars, classify_vars,
       calls_vars, notify_vars, sim_vars >>
outside_notify ==
    << pipeline_vars, store_vars, score_vars, pattern_vars, classify_vars,
       calls_vars, consumer_vars, sim_vars >>
outside_sim ==
    << pipeline_vars, store_vars, score_vars, pattern_vars, classify_vars,
       calls_vars, notify_vars, consumer_vars >>

(***************************************************************************)
(* Bounds of the model.                                                    *)
(***************************************************************************)
MaxBatch == 2         \* physical lines in one process_logs argument
MaxLevelTokens == 2   \* level tokens co-occurring in one scored line
MaxTokens == 2        \* pattern substrings co-occurring in one classified text
MaxCalls == 3         \* process_logs calls served by one LogProcessor
MaxPolls == 2         \* polls in one call of consume_logs
MaxPending == 2       \* messages waiting in the topic
MaxSimulations == 3   \* simulations started on the shared simulator

(***************************************************************************)
(* Program constants.                                                      *)
(***************************************************************************)
SEVERITY_FATAL == 1000
SEVERITY_ERROR == 750
SEVERITY_WARN == 500
SEVERITY_INFO == 250
SEVERITY_UNKNOWN == 250
SEVERE_PAUSE_MS == 15000
MODERATE_PAUSE_MS == 5000
SEVERE_PAUSE_BASE == 900
MODERATE_PAUSE_BASE == 700
BASE_WEIGHT == 7
SENTIMENT_WEIGHT == 3
ANOMALY_THRESHOLD == 5000
HIGH_SEVERITY_THRESHOLD == 7000

\* Variant of the table with FATAL at the score of ERROR.
SeverityWithFatalAsError(level) ==
    CASE level \in {"FATAL", "ERROR"} -> SEVERITY_ERROR
      [] level = "WARN" -> SEVERITY_WARN
      [] OTHER -> SEVERITY_INFO

\* Variant of the table with INFO and UNKNOWN at the score of WARN.
SeverityWithInfoAsWarn(level) ==
    CASE level = "FATAL" -> SEVERITY_FATAL
      [] level = "ERROR" -> SEVERITY_ERROR
      [] OTHER -> SEVERITY_WARN

SEVERITY_SCORES(level) ==
    CASE level = "FATAL" -> SEVERITY_FATAL
      [] level = "ERROR" -> SEVERITY_ERROR
      [] level = "WARN" -> SEVERITY_WARN
      [] level = "INFO" -> SEVERITY_INFO
      [] OTHER -> SEVERITY_UNKNOWN

\* list(ANOMALY_CATEGORIES.keys()), in insertion order
category_labels ==
    << "PERFORMANCE", "SECURITY", "AVAILABILITY", "DATA", "NETWORK", "RESOURCE" >>

Max(a, b) == IF a >= b THEN a ELSE b

(***************************************************************************)
(* Strings.                                                                *)
(***************************************************************************)
LevelTokens == {"FATAL", "ERROR", "WARN", "INFO"}

\* One physical line.
Line(tokens, approx, lead, component, exc) ==
    [tokens |-> tokens, approx |-> approx, lead |-> lead,
     component |-> component, exc |-> exc]

\* approx: what int(''.join(filter(str.isdigit, s.split("approximately")[1]
\* .split("ms")[0]))) meets.  NoApprox: "approximately" does not occur;
\* NoDigits: it occurs and no digit follows before "ms"; n >= 0: the digits read n.
NoApprox == -2
NoDigits == -1

EmptyLine == Line({}, NoApprox, "empty", "", "nocolon")

\* x in s, for a literal x without a newline
Contains(s, x) == \E k \in 1..Len(s) : x \in s[k].tokens

\* "\n\t" in s  and  "\nat " in s
ContainsNewlineTab(s) == \E k \in 2..Len(s) : s[k].lead = "tab"
ContainsNewlineAt(s) == \E k \in 2..Len(s) : s[k].lead = "at"

\* The first "approximately ... ms" segment of s.
ApproxOf(s) ==
    IF \E k \in 1..Len(s) : s[k].approx # NoApprox
    THEN LET k == CHOOSE j \in 1..Len(s) :
                    /\ s[j].approx # NoApprox
                    /\ \A h \in 1..(j - 1) : s[h].approx = NoApprox
         IN s[k].approx
    ELSE NoApprox

(***************************************************************************)
(* LogProcessor: the pure helpers.                                         *)
(***************************************************************************)
\* A parsed-information dict, or None (type "NONE").
NoInfo ==
    [type |-> "NONE", duration_ms |-> -1, severity |-> "", exception_type |-> "",
     stack_trace |-> << >>]

IsInfo(info) == info.type # "NONE"

\* Variant that tests FATAL last.
LevelWithFatalLast(log) ==
    IF Contains(log, "ERROR") THEN "ERROR"
    ELSE IF Contains(log, "WARN") THEN "WARN"
    ELSE IF Contains(log, "INFO") THEN "INFO"
    ELSE IF Contains(log, "FATAL") THEN "FATAL"
    ELSE "UNKNOWN"

_extract_log_level(log) ==
    IF Contains(log, "FATAL") THEN "FATAL"
    ELSE IF Contains(log, "ERROR") THEN "ERROR"
    ELSE IF Contains(log, "WARN") THEN "WARN"
    ELSE IF Contains(log, "INFO") THEN "INFO"
    ELSE "UNKNOWN"

\* re.search(r'org\.apache\.hadoop\.([\w\.]+):', log): the first capture, or "unknown"
ComponentOf(log) ==
    IF \E k \in 1..Len(log) : log[k].component # ""
    THEN LET k == CHOOSE j \in 1..Len(log) :
                    /\ log[j].component # ""
                    /\ \A h \in 1..(j - 1) : log[h].component = ""
         IN log[k].component
    ELSE "unknown"

\* for level in SEVERITY_SCORES: if level in log: ... break; else: UNKNOWN
_extract_log_level_and_component(log) ==
    LET base_score ==
            IF Contains(log, "FATAL") THEN SEVERITY_SCORES("FATAL")
            ELSE IF Contains(log, "ERROR") THEN SEVERITY_SCORES("ERROR")
            ELSE IF Contains(log, "WARN") THEN SEVERITY_SCORES("WARN")
            ELSE IF Contains(log, "INFO") THEN SEVERITY_SCORES("INFO")
            ELSE IF Contains(log, "UNKNOWN") THEN SEVERITY_SCORES("UNKNOWN")
            ELSE SEVERITY_SCORES("UNKNOWN")
    IN [base_score |-> base_score, component |-> ComponentOf(log)]

\* The int(...) of line 104 raises IndexError without "approximately" and
\* ValueError without digits; the bare except turns both into None.
_parse_jvm_pause(log) ==
    IF Contains(log, "JvmPauseMonitor") /\ Contains(log, "pause")
    THEN IF ApproxOf(log) >= 0
         THEN [type |-> "JVM_PAUSE",
               duration_ms |-> ApproxOf(log),
               severity |-> IF ApproxOf(log) > SEVERE_PAUSE_MS THEN "HIGH"
                            ELSE IF ApproxOf(log) > MODERATE_PAUSE_MS THEN "MEDIUM"
                            ELSE "LOW",
               exception_type |-> "",
               stack_trace |-> << >>]
         ELSE NoInfo
    ELSE NoInfo

_parse_stack_trace(log) ==
    IF ContainsNewlineTab(log) \/ ContainsNewlineAt(log)
    THEN [type |-> "EXCEPTION",
          duration_ms |-> -1,
          severity |-> "",
          exception_type |-> IF log[1].exc # "nocolon" THEN log[1].exc
                             ELSE "Unknown Exception",
          stack_trace |-> SubSeq(log, 2, Len(log))]
    ELSE NoInfo

\* Variant with the two weights exchanged and no adjustment.
ScoreWithWeightsSwapped(log_level, sentiment_score, additional_factors) ==
    (SEVERITY_SCORES(log_level) * SENTIMENT_WEIGHT) + (sentiment_score * BASE_WEIGHT)

_calculate_anomaly_score(log_level, sentiment_score, additional_factors) ==
    LET base0 == SEVERITY_SCORES(log_level)
        base1 ==
            IF additional_factors.type = "JVM_PAUSE"
            THEN IF additional_factors.duration_ms > SEVERE_PAUSE_MS
                 THEN Max(base0, SEVERE_PAUSE_BASE)
                 ELSE IF additional_factors.duration_ms > MODERATE_PAUSE_MS
                      THEN Max(base0, MODERATE_PAUSE_BASE)
                      ELSE base0
            ELSE base0
        base2 ==
            IF additional_factors.type = "EXCEPTION"
            THEN IF additional_factors.exception_type = "NullPointerException"
                 THEN Max(base1, SEVERITY_SCORES("ERROR"))
                 ELSE IF additional_factors.exception_type = "IOException"
                      THEN Max(base1, SEVERITY_SCORES("WARN"))
                      ELSE base1
            ELSE base1
    IN (base2 * BASE_WEIGHT) + (sentiment_score * SENTIMENT_WEIGHT)

\* Variant with the subtraction reversed: score - 1 for a POSITIVE label.
SentimentReversed(classification) ==
    IF classification.label = "NEGATIVE" THEN classification.score
    ELSE classification.score - 1000

\* classification['score'] if classification['label'] == 'NEGATIVE'
\*   else 1 - classification['score']
SentimentOf(classification) ==
    IF classification.label = "NEGATIVE" THEN classification.score
    ELSE 1000 - classification.score

\* Variant that looks at the stack trace first.
FactorsPreferringStackTrace(jvm_info, stack_trace_info) ==
    IF IsInfo(stack_trace_info) THEN stack_trace_info
    ELSE IF IsInfo(jvm_info) THEN jvm_info
    ELSE NoInfo

\* additional_factors of line 196
AdditionalFactors(jvm_info, stack_trace_info) ==
    IF IsInfo(jvm_info) THEN jvm_info
    ELSE IF IsInfo(stack_trace_info) THEN stack_trace_info
    ELSE NoInfo

\* final_score of lines 188-201 for one entry and one answer of the detector
FinalScore(log, classification) ==
    _calculate_anomaly_score(
        _extract_log_level(log),
        SentimentOf(classification),
        AdditionalFactors(_parse_jvm_pause(log), _parse_stack_trace(log)))

(***************************************************************************)
(* The zero-shot classifier and classify_anomaly.                          *)
(***************************************************************************)
\* The classifier call raising instead of answering.
ClassifierRaises == [raised |-> TRUE, labels |-> << >>, scores |-> << >>]

\* A classifier answer holding best at score 0.5 and the others at 0.1, with
\* the labels in candidate order, and the same answer with the labels sorted
\* by descending score.
InCandidateOrder(best) ==
    [raised |-> FALSE,
     labels |-> category_labels,
     scores |-> [k \in 1..Len(category_labels) |->
                    IF category_labels[k] = best THEN 500 ELSE 100]]

SortedByScore(best) ==
    [raised |-> FALSE,
     labels |-> << best >> \o SelectSeq(category_labels, LAMBDA l : l # best),
     scores |-> [k \in 1..Len(category_labels) |-> IF k = 1 THEN 500 ELSE 100]]

\* result['scores'].index(max(result['scores']))
IndexOfMax(scores) ==
    CHOOSE k \in 1..Len(scores) :
        /\ \A j \in 1..Len(scores) : scores[j] <= scores[k]
        /\ \A j \in 1..(k - 1) : scores[j] < scores[k]

\* classify_anomaly given what self.anomaly_classifier(...) did: result is an
\* answer, or ClassifierRaises; the scores dict is kept as the list zipped with
\* category_labels, << >> when the key is absent.
classify_anomaly(result) ==
    IF result.raised
    THEN [category |-> "UNKNOWN", confidence |-> 0, scores |-> << >>]
    ELSE LET best_match_idx == IndexOfMax(result.scores)
         IN [category |-> category_labels[best_match_idx],
             confidence |-> result.scores[best_match_idx],
             scores |-> result.scores]

(***************************************************************************)
(* EmailService.                                                           *)
(***************************************************************************)
\* os.getenv of a variable that is not set
EnvUnset == "<unset>"

\* self.admin_emails for a deployment that sets NETWORK_ADMIN_EMAIL and
\* SECURITY_ADMIN_EMAIL, sets DATA_ADMIN_EMAIL to the empty string and
\* leaves the other three unset.
admin_emails ==
    [l \in {category_labels[k] : k \in 1..Len(category_labels)} |->
        CASE l = "NETWORK" -> "network-admin@example.org"
          [] l = "SECURITY" -> "security-admin@example.org"
          [] l = "DATA" -> ""
          [] OTHER -> EnvUnset]

\* Variant that falls back to one address when the category has none.
AdminEmailsWithFallback(anomaly_type) ==
    IF anomaly_type \in DOMAIN admin_emails
       /\ admin_emails[anomaly_type] # EnvUnset
       /\ admin_emails[anomaly_type] # ""
    THEN << admin_emails[anomaly_type] >>
    ELSE << "admin@example.org" >>

get_admin_emails(anomaly_type) ==
    LET admin_email == IF anomaly_type \in DOMAIN admin_emails
                       THEN admin_emails[anomaly_type]
                       ELSE EnvUnset
    IN IF admin_email # EnvUnset /\ admin_email # "" THEN << admin_email >>
       ELSE << >>

(***************************************************************************)
(* LogProcessor.process_logs.                                              *)
(***************************************************************************)
\* The entry of scored for an entry whose processing raised.
Raised == -1

\* No record under construction.
NoAnomaly ==
    [entry |-> 0, text |-> << >>, score |-> -1, level |-> "", component |-> "",
     type |-> "", duration_ms |-> -1, severity |-> "", exception_type |-> "",
     stack_trace |-> << >>,
     classification |-> [category |-> "", confidence |-> -1, scores |-> << >>]]

IsBlank(line) == line.lead = "empty"

\* str.strip(): leading and trailing whitespace goes, so the blank lines at
\* both ends go and a first line that began with a tab ("\tat ...") begins
\* with "at "; a string of blank lines only becomes "".
Strip(s) ==
    IF \A k \in 1..Len(s) : IsBlank(s[k])
    THEN << EmptyLine >>
    ELSE LET first == CHOOSE k \in 1..Len(s) :
                        ~IsBlank(s[k]) /\ \A j \in 1..(k - 1) : IsBlank(s[j])
             last == CHOOSE k \in 1..Len(s) :
                        ~IsBlank(s[k]) /\ \A j \in (k + 1)..Len(s) : IsBlank(s[j])
             cut == SubSeq(s, first, last)
         IN [k \in 1..Len(cut) |->
                IF k = 1 /\ cut[k].lead = "tab"
                THEN [cut[k] EXCEPT !.lead = "at"]
                ELSE cut[k]]

\* Variant that does not split: the whole text is one entry.
NoSplit(s) == << s >>

\* str.split('\n'): one string per physical line
Split(s) == [k \in 1..Len(s) |-> << s[k] >>]

\* Variant that tests for None only.
IsNone(s) == s = << >>

\* "not log_content": None or the empty string
IsFalsy(s) == s = << >> \/ s = << EmptyLine >>

\* Variants with the comparison off by one: >= where the code has >.
QualifiesAtThreshold(score) == score >= ANOMALY_THRESHOLD
IsHighSeverityAtThreshold(score) == score >= HIGH_SEVERITY_THRESHOLD

\* final_score > 0.5   and   final_score > 0.7
Qualifies(score) == score > ANOMALY_THRESHOLD
IsHighSeverity(score) == score > HIGH_SEVERITY_THRESHOLD

\* Variant that leaves the record with its text and score only.
TornAnomaly(entry, log, score) ==
    [NoAnomaly EXCEPT !.entry = entry, !.text = log, !.score = score]

\* lines 205-217: the record of a qualifying entry
NewAnomaly(entry, log, score) ==
    LET jvm_info == _parse_jvm_pause(log)
        stack_trace_info == _parse_stack_trace(log)
        extra == IF IsInfo(stack_trace_info) THEN stack_trace_info ELSE jvm_info
    IN [entry |-> entry,
        text |-> log,
        score |-> score,
        level |-> _extract_log_level(log),
        component |-> _extract_log_level_and_component(log).component,
        type |-> IF IsInfo(extra) THEN extra.type ELSE "",
        duration_ms |-> jvm_info.duration_ms,
        severity |-> jvm_info.severity,
        exception_type |-> stack_trace_info.exception_type,
        stack_trace |-> stack_trace_info.stack_trace,
        classification |-> NoAnomaly.classification]

\* Variant that loses the classification.
DropClassification(record, classification_result) == record

\* anomaly.update({"classification": classification_result})
AttachClassification(record, classification_result) ==
    [record EXCEPT !.classification = classification_result]

\* Variant that inserts at the head.
PrependAnomaly(list, record) == << record >> \o list

\* anomalies.append(anomaly)
AppendAnomaly(list, record) == Append(list, record)

\* Variant that keeps the record only when the message was delivered.
AppendIfDelivered(list, record, delivered) ==
    IF delivered THEN Append(list, record) ELSE list

\* lines 237-244: the value send_email returns is dropped and the append
\* follows whatever it was
AppendAfterSend(list, record, delivered) == AppendAnomaly(list, record)

\* Variant that goes on with the list an earlier call left.
LeftoverAnomalies(previous) == previous

\* line 181: anomalies = [], whatever an earlier call left behind
FreshAnomalies(previous) == << >>

\* Variant whose except clause re-raises.
ExceptReraises == "raised"

\* where the except clause of the for body leaves process_logs: "continue"
ExceptResumesAt == "loop"

\* FATAL org.apache.hadoop.hdfs.server.datanode.DataNode: DataNode is
\* shutting down. Reason: disk failure
FatalLine == Line({"FATAL"}, NoApprox, "text", "hdfs.server.datanode.DataNode", "other")
\* ERROR org.apache.hadoop.hdfs.server.datanode.DataNode: IOException in
\* block blk_123 from datanode3: Connection timed out
ErrorLine ==
    Line({"ERROR", "Connection timed out"}, NoApprox, "text",
         "hdfs.server.datanode.DataNode", "other")
\* WARN org.apache.hadoop.util.JvmPauseMonitor: Starting JVM pause monitor
WarnLine ==
    Line({"WARN", "JvmPauseMonitor", "pause"}, NoApprox, "text",
         "util.JvmPauseMonitor", "other")
\* INFO org.apache.hadoop.hdfs.server.namenode.FSNamesystem: Roll Edit Log
InfoLine == Line({"INFO"}, NoApprox, "text", "hdfs.server.namenode.FSNamesystem", "other")
\* INFO org.apache.hadoop.util.JvmPauseMonitor: Detected pause in JVM or
\* host machine (eg GC): pause of approximately 20000ms
PauseLine ==
    Line({"INFO", "JvmPauseMonitor", "pause"}, 20000, "text",
         "util.JvmPauseMonitor", "other")
\* "\tat org.apache.hadoop.hdfs.server.datanode.DataNode.run(DataNode.java:1)"
TraceLine == Line({}, NoApprox, "tab", "", "nocolon")

\* The physical lines a process_logs argument is made of.
PipelineLines ==
    { FatalLine, ErrorLine, WarnLine, InfoLine, PauseLine, TraceLine, EmptyLine }

BoundedSeq(S, n) == UNION { [1..m -> S] : m \in 1..n }

\* The answers of self.anomaly_detector(log)[0], and the call raising.
DetectorRaises == [raised |-> TRUE, label |-> "", score |-> 0]
DetectorAnswers(scores) ==
    [raised : {FALSE}, label : {"NEGATIVE", "POSITIVE"}, score : scores]
PipelineDetectorScores == {0, 500, 1000}

\* The answers of self.anomaly_classifier(...).
ClassifierAnswers ==
    { InCandidateOrder("NETWORK"), InCandidateOrder("DATA"), SortedByScore("NETWORK") }

InitIdleScore ==
    /\ sc_log = << >> /\ sc_cls = DetectorRaises /\ sc_pc = "off" /\ sc_score = -1
    /\ sc_level = "" /\ sc_anomaly = NoAnomaly

\* No call of classify_anomaly has returned.
NoClassification == [category |-> "", confidence |-> -1, scores |-> << >>]

InitIdleClassify ==
    /\ cl_result = ClassifierRaises /\ cl_pc = "off" /\ cl_out = NoClassification

\* No capabilities chosen.
NoStub == [detector |-> "", classifier |-> "", smtp_ok |-> FALSE]

InitIdleCalls ==
    /\ stub = NoStub /\ history = << >> /\ vector_store = "None"
\* No result of the pattern classifier yet.
NoPattern == [type |-> "", sub_type |-> "", duration_ms |-> -1, source_component |-> ""]

InitIdlePattern ==
    /\ pt_text = << >> /\ pt_pc = "off" /\ pt_out = NoPattern

\* No body formatted.
NoBody == [type |-> "", score_text |-> -1]

InitIdleNotify ==
    /\ nt_type = "" /\ nt_score = -1 /\ nt_pc = "off" /\ nt_body = NoBody
    /\ nt_color = ""

InitIdleConsumer ==
    /\ _thread = "None" /\ _running = FALSE /\ client_closed = FALSE
    /\ co_websocket = "unbound" /\ co_pc = "off" /\ co_polls = 0
    /\ co_logs = << >> /\ co_raw = << >> /\ co_anomalies = << >>
    /\ co_persisted = << >>
    /\ app_pc = "off" /\ stop_coro = "none" /\ health = "" /\ topic = << >>

\* The WebSocket connections.
Connections == {"a", "b"}

InitIdleSim ==
    /\ log_storage = 0 /\ closed = {} /\ storages = 0 /\ started = 0
    /\ task = [c \in Connections |-> "off"]
    /\ handle = [c \in Connections |-> 0]
    /\ used = [c \in Connections |-> ""]
    /\ outcome = [c \in Connections |-> ""]

InitIdlePipeline ==
    /\ log_content = << >> /\ logs = << >> /\ i = 0 /\ pc = "off"
    /\ anomaly = NoAnomaly /\ final_score = -1 /\ anomalies = << >>
    /\ admin_to = << >> /\ scored = << >> /\ classifier_calls = {}
    /\ sends = << >>
InitIdleStore ==
    /\ st_anomalies = << >> /\ store_pc = "off" /\ bulk_docs = << >>

Init ==
    /\ log_content \in {<< >>} \cup BoundedSeq(PipelineLines, MaxBatch)
    /\ logs = << >>
    /\ i = 0
    /\ pc = "start"
    /\ anomaly = NoAnomaly
    /\ final_score = -1
    /\ anomalies = << >>
    /\ admin_to = << >>
    /\ scored = << >>
    /\ classifier_calls = {}
    /\ sends = << >>
    /\ InitIdleStore
    /\ InitIdleScore
    /\ InitIdlePattern
    /\ InitIdleClassify
    /\ InitIdleCalls
    /\ InitIdleNotify
    /\ InitIdleConsumer
    /\ InitIdleSim

\* lines 174-175: if not log_content: return []
ReturnEmpty ==
    /\ pc = "start"
    /\ IsFalsy(log_content)
    /\ pc' = "done"
    /\ UNCHANGED << log_content, logs, i, anomaly, final_score, anomalies, admin_to,
                    scored, classifier_calls, sends >>

\* lines 178-181
SplitLogs ==
    /\ pc = "start"
    /\ ~IsFalsy(log_content)
    /\ logs' = Split(Strip(log_content))
    /\ i' = 1
    /\ anomalies' = FreshAnomalies(anomalies)
    /\ pc' = "loop"
    /\ UNCHANGED << log_content, anomaly, final_score, admin_to, scored,
                    classifier_calls, sends >>

\* lines 185-192 with the detector raising, then the except clause (246-248)
SkipEntryOnError ==
    /\ pc = "loop"
    /\ i <= Len(logs)
    /\ scored' = Append(scored, Raised)
    /\ i' = i + 1
    /\ pc' = ExceptResumesAt
    /\ UNCHANGED << log_content, logs, anomaly, final_score, anomalies, admin_to,
                    classifier_calls, sends >>

\* lines 185-204 for an entry whose final_score is not above the threshold
SkipEntryBelowThreshold ==
    /\ pc = "loop"
    /\ i <= Len(logs)
    /\ \E classification \in DetectorAnswers(PipelineDetectorScores) :
        LET score == FinalScore(logs[i], classification)
        IN /\ ~Qualifies(score)
           /\ scored' = Append(scored, score)
    /\ i' = i + 1
    /\ UNCHANGED << log_content, logs, pc, anomaly, final_score, anomalies, admin_to,
                    classifier_calls, sends >>

\* lines 185-217 for an entry whose final_score is above the threshold
BuildAnomaly ==
    /\ pc = "loop"
    /\ i <= Len(logs)
    /\ \E classification \in DetectorAnswers(PipelineDetectorScores) :
        LET score == FinalScore(logs[i], classification)
        IN /\ Qualifies(score)
           /\ scored' = Append(scored, score)
           /\ final_score' = score
           /\ anomaly' = NewAnomaly(i, logs[i], score)
    /\ pc' = "classify"
    /\ UNCHANGED << log_content, logs, i, anomalies, admin_to, classifier_calls,
                    sends >>

\* lines 220-226 and 244 for a record that is not of high severity
ClassifyAndAppend ==
    /\ pc = "classify"
    /\ ~IsHighSeverity(final_score)
    /\ \E result \in ClassifierAnswers \cup {ClassifierRaises} :
        anomalies' = AppendAnomaly(anomalies,
                        AttachClassification(anomaly, classify_anomaly(result)))
    /\ classifier_calls' = classifier_calls \cup {i}
    /\ anomaly' = NoAnomaly
    /\ final_score' = -1
    /\ i' = i + 1
    /\ pc' = "loop"
    /\ UNCHANGED << log_content, logs, admin_to, scored, sends >>

\* lines 220-227 for a record of high severity
ClassifyAndResolve ==
    /\ pc = "classify"
    /\ IsHighSeverity(final_score)
    /\ \E result \in ClassifierAnswers \cup {ClassifierRaises} :
        LET classification_result == classify_anomaly(result)
        IN /\ anomaly' = AttachClassification(anomaly, classification_result)
           /\ admin_to' = get_admin_emails(classification_result.category)
    /\ classifier_calls' = classifier_calls \cup {i}
    /\ pc' = "notify"
    /\ UNCHANGED << log_content, logs, i, final_score, anomalies, scored, sends >>

\* lines 229-244 with recipients: format, send_email (True, or False when
\* building or sending the message raised), append
NotifyAndAppend ==
    /\ pc = "notify"
    /\ admin_to # << >>
    /\ \E delivered \in BOOLEAN :
        /\ sends' = Append(sends,
                      [entry |-> i,
                       to_emails |-> admin_to,
                       anomaly_type |-> anomaly.classification.category,
                       score |-> final_score,
                       delivered |-> delivered])
        /\ anomalies' = AppendAfterSend(anomalies, anomaly, delivered)
    /\ anomaly' = NoAnomaly
    /\ final_score' = -1
    /\ admin_to' = << >>
    /\ i' = i + 1
    /\ pc' = "loop"
    /\ UNCHANGED << log_content, logs, scored, classifier_calls >>

\* lines 229 and 244 without recipients
AppendUnnotified ==
    /\ pc = "notify"
    /\ admin_to = << >>
    /\ anomalies' = AppendAnomaly(anomalies, anomaly)
    /\ anomaly' = NoAnomaly
    /\ final_score' = -1
    /\ i' = i + 1
    /\ pc' = "loop"
    /\ UNCHANGED << log_content, logs, admin_to, scored, classifier_calls, sends >>

\* line 250
ReturnAnomalies ==
    /\ pc = "loop"
    /\ i > Len(logs)
    /\ pc' = "done"
    /\ UNCHANGED << log_content, logs, i, anomaly, final_score, anomalies, admin_to,
                    scored, classifier_calls, sends >>

(***************************************************************************)
(* ElasticLogStorage: the pattern classifier and store_anomalies.          *)
(***************************************************************************)
\* text.lower() contains x: the token "lower:" \o x
ContainsLower(s, x) == Contains(s, "lower:" \o x)

PatternResult(text, type, sub_type, duration_ms) ==
    [type |-> type, sub_type |-> sub_type, duration_ms |-> duration_ms,
     source_component |-> ComponentOf(text)]

\* The function raising: type "RAISED", sub_type the exception.
PatternRaises(exception) ==
    [type |-> "RAISED", sub_type |-> exception, duration_ms |-> -1,
     source_component |-> ""]

_determine_anomaly_type(text) ==
    IF Contains(text, "JvmPauseMonitor")
    THEN \* line 301: split("approximately")[1] and int('') are not guarded
         IF ApproxOf(text) = NoApprox THEN PatternRaises("IndexError")
         ELSE IF ApproxOf(text) = NoDigits THEN PatternRaises("ValueError")
         ELSE PatternResult(text, "PERFORMANCE", "JVM_PAUSE", ApproxOf(text))
    ELSE IF Contains(text, "Slow BlockReceiver") \/ ContainsLower(text, "slow io")
    THEN PatternResult(text, "PERFORMANCE", "SLOW_IO", -1)
    ELSE IF Contains(text, "NameNode")
    THEN \* lines 316-328: no else branch, control leaves the elif chain
         IF Contains(text, "Failed to start active state service")
         THEN PatternResult(text, "AVAILABILITY", "STARTUP_FAILURE", -1)
         ELSE IF Contains(text, "Lost leadership")
         THEN PatternResult(text, "AVAILABILITY", "LEADERSHIP_LOSS", -1)
         ELSE PatternResult(text, "UNKNOWN", "GENERAL", -1)
    ELSE IF Contains(text, "BlockManager")
    THEN \* lines 331-349: likewise
         IF Contains(text, "corrupted")
         THEN PatternResult(text, "DATA", "CORRUPTION", -1)
         ELSE IF Contains(text, "Unable to place replica")
         THEN PatternResult(text, "DATA", "REPLICA_PLACEMENT", -1)
         ELSE IF Contains(text, "Total load")
         THEN PatternResult(text, "RESOURCE", "HIGH_LOAD", -1)
         ELSE PatternResult(text, "UNKNOWN", "GENERAL", -1)
    ELSE IF Contains(text, "Login failed") \/ Contains(text, "authentication failed")
    THEN PatternResult(text, "SECURITY",
                       IF Contains(text, "Login failed") THEN "LOGIN_FAILURE"
                       ELSE "AUTH_FAILURE", -1)
    ELSE IF Contains(text, "Token") /\ Contains(text, "ERROR")
    THEN PatternResult(text, "SECURITY", "TOKEN_ERROR", -1)
    ELSE IF Contains(text, "Connection timed out")
    THEN PatternResult(text, "NETWORK", "TIMEOUT", -1)
    ELSE IF Contains(text, "Network error") \/ Contains(text, "Connection refused")
    THEN PatternResult(text, "NETWORK", "CONNECTION_ERROR", -1)
    ELSE IF ContainsLower(text, "disk space") \/ Contains(text, "capacity exceeded")
    THEN PatternResult(text, "RESOURCE", "DISK_SPACE", -1)
    ELSE IF Contains(text, "Memory usage") \/ Contains(text, "OutOfMemoryError")
    THEN PatternResult(text, "RESOURCE", "MEMORY", -1)
    ELSE PatternResult(text, "UNKNOWN", "GENERAL", -1)

\* The keys of the dict of lines 109-118.
DocFields ==
    {"@timestamp", "text", "score", "type", "sub_type", "duration_ms",
     "source_component", "stack_trace"}

\* The keys of doc whose value is None.  None is kept as "" (strings), -1
\* (duration_ms) and << >> (stack_trace); "@timestamp" is datetime.now().
NoneValued(doc) ==
    { f \in DocFields :
        \/ f = "text" /\ doc.text = << >>
        \/ f = "score" /\ doc.score = -1
        \/ f = "type" /\ doc.type = ""
        \/ f = "sub_type" /\ doc.sub_type = ""
        \/ f = "duration_ms" /\ doc.duration_ms = -1
        \/ f = "source_component" /\ doc.source_component = ""
        \/ f = "stack_trace" /\ doc.stack_trace = << >> }

\* Variant that removes nothing.
KeepEveryField(doc) == DocFields

\* line 121: {k: v for k, v in doc.items() if v is not None}, as the keys
\* that remain
RemoveNone(doc) == DocFields \ NoneValued(doc)

\* lines 101-121: the document of one anomaly: the values of lines 109-118
\* and, in present, the keys line 121 leaves in it.
AnomalyDoc(a) ==
    LET anomaly_info == _determine_anomaly_type(a.text)
        doc == [text |-> a.text,
                score |-> a.score,
                type |-> anomaly_info.type,
                sub_type |-> anomaly_info.sub_type,
                duration_ms |-> anomaly_info.duration_ms,
                source_component |-> anomaly_info.source_component,
                stack_trace |-> IF ContainsNewlineTab(a.text)
                                THEN SubSeq(a.text, 2, Len(a.text)) ELSE << >>]
    IN [text |-> doc.text,
        score |-> doc.score,
        type |-> doc.type,
        sub_type |-> doc.sub_type,
        duration_ms |-> doc.duration_ms,
        source_component |-> doc.source_component,
        stack_trace |-> doc.stack_trace,
        present |-> RemoveNone(doc)]

\* The first anomaly whose text makes _determine_anomaly_type raise, 0 if none.
FirstRaising(list) ==
    IF \E k \in 1..Len(list) : _determine_anomaly_type(list[k].text).type = "RAISED"
    THEN CHOOSE k \in 1..Len(list) :
            /\ _determine_anomaly_type(list[k].text).type = "RAISED"
            /\ \A j \in 1..(k - 1) : _determine_anomaly_type(list[j].text).type # "RAISED"
    ELSE 0

\* store_anomalies(anomalies): the loop builds every document before the one
\* es.bulk call, and the except clause re-raises whatever was raised.
StoreAnomaliesRaises ==
    /\ store_pc = "idle"
    /\ FirstRaising(st_anomalies) # 0
    /\ store_pc' = "raised"
    /\ bulk_docs' = << >>
    /\ UNCHANGED st_anomalies

StoreAnomaliesBulk ==
    /\ store_pc = "idle"
    /\ st_anomalies # << >>
    /\ FirstRaising(st_anomalies) = 0
    /\ \E es_ok \in BOOLEAN :
        /\ store_pc' = IF es_ok THEN "returned" ELSE "es_raised"
        /\ bulk_docs' = IF es_ok
                        THEN [k \in 1..Len(st_anomalies) |-> AnomalyDoc(st_anomalies[k])]
                        ELSE << >>
    /\ UNCHANGED st_anomalies

\* line 129: nothing to index
StoreNothing ==
    /\ store_pc = "idle"
    /\ st_anomalies = << >>
    /\ store_pc' = "returned"
    /\ UNCHANGED << st_anomalies, bulk_docs >>

(***************************************************************************)
(* Single-entry scoring: lines 185-217 of process_logs on one entry.       *)
(***************************************************************************)
RECURSIVE BoundedSubsets(_, _)
\* the subsets of S of at most n elements
BoundedSubsets(S, n) ==
    IF n = 0 THEN {{}}
    ELSE LET smaller == BoundedSubsets(S, n - 1)
         IN smaller \cup { T \cup {x} : T \in smaller, x \in S }

PauseDurations == {5000, 5001, 15000, 15001, 20000}
ScoreDetectorScores == {0, 250, 500, 750, 1000}

\* One-line entries, and the same followed by a stack-trace line.
ScoreLines ==
    { Line(lv \cup jv, approx, "text", "", exc) :
        lv \in BoundedSubsets(LevelTokens, MaxLevelTokens),
        jv \in SUBSET {"JvmPauseMonitor", "pause"},
        approx \in {NoApprox, NoDigits} \cup PauseDurations,
        exc \in {"nocolon", "other", "NullPointerException", "IOException"} }

ScoreLogs == { << l >> : l \in ScoreLines } \cup { << l, TraceLine >> : l \in ScoreLines }

InitScore ==
    /\ sc_log \in ScoreLogs
    /\ sc_cls \in DetectorAnswers(ScoreDetectorScores)
    /\ sc_pc = "ready"
    /\ sc_score = -1
    /\ sc_level = ""
    /\ sc_anomaly = NoAnomaly
    /\ InitIdlePipeline
    /\ InitIdleStore
    /\ InitIdlePattern
    /\ InitIdleClassify
    /\ InitIdleCalls
    /\ InitIdleNotify
    /\ InitIdleConsumer
    /\ InitIdleSim

\* lines 185-217: the score, the level it was computed from (line 198) and,
\* above the threshold, the record with the level of line 209
ScoreEntry ==
    /\ sc_pc = "ready"
    /\ sc_level' = _extract_log_level(sc_log)
    /\ sc_score' = FinalScore(sc_log, sc_cls)
    /\ sc_anomaly' = IF Qualifies(FinalScore(sc_log, sc_cls))
                     THEN NewAnomaly(1, sc_log, FinalScore(sc_log, sc_cls))
                     ELSE NoAnomaly
    /\ sc_pc' = "scored"
    /\ UNCHANGED << sc_log, sc_cls >>

(***************************************************************************)
(* Single-text pattern classification.                                     *)
(***************************************************************************)
PatternTokens ==
    { "JvmPauseMonitor", "Slow BlockReceiver", "lower:slow io", "NameNode",
      "Failed to start active state service", "Lost leadership", "BlockManager",
      "corrupted", "Unable to place replica", "Total load", "Login failed",
      "authentication failed", "Token", "ERROR", "Connection timed out",
      "Network error", "Connection refused", "lower:disk space",
      "capacity exceeded", "Memory usage", "OutOfMemoryError" }

PatternTexts ==
    { << Line(T, approx, "text", component, "other") >> :
        T \in BoundedSubsets(PatternTokens, MaxTokens),
        approx \in {NoApprox, NoDigits, 20000},
        component \in {"", "hdfs.server.namenode.NameNode"} }

InitPattern ==
    /\ pt_text \in PatternTexts
    /\ pt_pc = "ready"
    /\ pt_out = NoPattern
    /\ InitIdlePipeline
    /\ InitIdleStore
    /\ InitIdleScore
    /\ InitIdleClassify
    /\ InitIdleCalls
    /\ InitIdleNotify
    /\ InitIdleConsumer
    /\ InitIdleSim

DetermineReturns ==
    /\ pt_pc = "ready"
    /\ _determine_anomaly_type(pt_text).type # "RAISED"
    /\ pt_out' = _determine_anomaly_type(pt_text)
    /\ pt_pc' = "returned"
    /\ UNCHANGED pt_text

DetermineRaises ==
    /\ pt_pc = "ready"
    /\ _determine_anomaly_type(pt_text).type = "RAISED"
    /\ pt_out' = _determine_anomaly_type(pt_text)
    /\ pt_pc' = "raised"
    /\ UNCHANGED pt_text

(***************************************************************************)
(* One call of store_anomalies.                                            *)
(***************************************************************************)
StoreTexts ==
    { << l >> : l \in PipelineLines \ {EmptyLine} } \cup { << ErrorLine, TraceLine >> }

StoreAnomalies == [text : StoreTexts, score : {6500, 8500}]

InitStore ==
    /\ st_anomalies \in {<< >>} \cup BoundedSeq(StoreAnomalies, MaxBatch)
    /\ store_pc = "idle"
    /\ bulk_docs = << >>
    /\ InitIdlePipeline
    /\ InitIdleScore
    /\ InitIdlePattern
    /\ InitIdleClassify
    /\ InitIdleCalls
    /\ InitIdleNotify
    /\ InitIdleConsumer
    /\ InitIdleSim

(***************************************************************************)
(* One call of classify_anomaly.                                           *)
(***************************************************************************)
Labels == { category_labels[k] : k \in 1..Len(category_labels) }

Reverse(seq) == [k \in 1..Len(seq) |-> seq[Len(seq) + 1 - k]]

\* The score the backend gives each label: 0.6 to best, 0.3 to second and
\* 0.025 to each of the others.
BackendScores(best, second) ==
    [l \in Labels |-> IF l = best THEN 600 ELSE IF l = second THEN 300 ELSE 25]

\* The label orders of an answer: the order of candidate_labels, descending
\* score (what a zero-shot pipeline returns) and the reverse of the
\* candidate order.
DescendingOrder(best, second) ==
    << best, second >> \o SelectSeq(category_labels, LAMBDA l : l \notin {best, second})

BackendOrders(best, second) ==
    { category_labels, DescendingOrder(best, second), Reverse(category_labels) }

\* result of self.anomaly_classifier(...): 'labels' and the parallel 'scores'
BackendAnswer(order, best, second) ==
    [raised |-> FALSE,
     labels |-> order,
     scores |-> [k \in 1..Len(order) |-> BackendScores(best, second)[order[k]]]]

BackendAnswers ==
    UNION { { BackendAnswer(order, pair[1], pair[2]) :
                order \in BackendOrders(pair[1], pair[2]) } :
              pair \in { q \in Labels \X Labels : q[1] # q[2] } }

InitClassify ==
    /\ cl_result \in BackendAnswers \cup {ClassifierRaises}
    /\ cl_pc = "ready"
    /\ cl_out = NoClassification
    /\ InitIdlePipeline
    /\ InitIdleStore
    /\ InitIdleScore
    /\ InitIdlePattern
    /\ InitIdleCalls
    /\ InitIdleNotify
    /\ InitIdleConsumer
    /\ InitIdleSim

\* lines 152-167
ClassifyReturns ==
    /\ cl_pc = "ready"
    /\ ~cl_result.raised
    /\ cl_out' = classify_anomaly(cl_result)
    /\ cl_pc' = "returned"
    /\ UNCHANGED cl_result

\* lines 168-170
ClassifyFallsBack ==
    /\ cl_pc = "ready"
    /\ cl_result.raised
    /\ cl_out' = classify_anomaly(cl_result)
    /\ cl_pc' = "returned"
    /\ UNCHANGED cl_result

(***************************************************************************)
(* One LogProcessor serving successive calls of process_logs with          *)
(* deterministic capabilities.  The local variables of a call are unbound  *)
(* at its entry: the model leaves in them what the previous call left, and *)
(* the call's own statements assign them before they are read.             *)
(***************************************************************************)
\* Deterministic stand-ins for self.anomaly_detector: the answer is a
\* function of the text.
StubDetector(name, log) ==
    CASE name = "calm" -> [raised |-> FALSE, label |-> "POSITIVE", score |-> 1000]
      [] name = "alarmed" -> [raised |-> FALSE, label |-> "NEGATIVE", score |-> 1000]
      [] OTHER -> IF Contains(log, "WARN") THEN DetectorRaises
                  ELSE [raised |-> FALSE, label |-> "NEGATIVE", score |-> 500]

\* Deterministic stand-ins for self.anomaly_classifier.
StubClassifier(name) ==
    CASE name = "network" -> InCandidateOrder("NETWORK")
      [] name = "sorted" -> SortedByScore("NETWORK")
      [] OTHER -> ClassifierRaises

Stubs ==
    [detector : {"calm", "alarmed", "failing_on_warn"},
     classifier : {"network", "sorted", "failing"},
     smtp_ok : BOOLEAN]

\* WARN org.apache.hadoop.hdfs.server.datanode.DataNode: java.lang.NullPointerException
NpeLine ==
    Line({"WARN"}, NoApprox, "text", "hdfs.server.datanode.DataNode",
         "NullPointerException")

\* The arguments of the calls; the last is an exception with the first line
\* of its stack trace.
CallInputs ==
    { << >>, << FatalLine >>, << ErrorLine, WarnLine >>, << PauseLine, InfoLine >>,
      << NpeLine, TraceLine >> }

\* What the call returns: the new list of line 175, or anomalies (line 250).
Returned == IF IsFalsy(log_content) THEN << >> ELSE anomalies

InitCalls ==
    /\ stub \in Stubs
    /\ history = << >>
    /\ vector_store = "None"
    /\ log_content = << >> /\ logs = << >> /\ i = 0 /\ pc = "idle"
    /\ anomaly = NoAnomaly /\ final_score = -1 /\ anomalies = << >>
    /\ admin_to = << >> /\ scored = << >> /\ classifier_calls = {}
    /\ sends = << >>
    /\ InitIdleStore
    /\ InitIdleScore
    /\ InitIdlePattern
    /\ InitIdleClassify
    /\ InitIdleNotify
    /\ InitIdleConsumer
    /\ InitIdleSim

\* A caller invokes process_logs; the observations start afresh.
CallProcessLogs ==
    /\ pc = "idle"
    /\ Len(history) < MaxCalls
    /\ log_content' \in CallInputs
    /\ pc' = "start"
    /\ scored' = << >>
    /\ classifier_calls' = {}
    /\ sends' = << >>
    /\ UNCHANGED << logs, i, anomaly, final_score, anomalies, admin_to, calls_vars >>

\* lines 175 and 250: the call hands its list to the caller
ReturnToCaller ==
    /\ pc = "done"
    /\ history' = Append(history,
                     [input |-> log_content, output |-> Returned, sends |-> sends])
    /\ pc' = "idle"
    /\ UNCHANGED << log_content, logs, i, anomaly, final_score, anomalies, admin_to,
                    scored, classifier_calls, sends, stub, vector_store >>

\* The steps of process_logs with the capabilities answering as the stub does.
StubSkipEntryOnError ==
    /\ SkipEntryOnError
    /\ StubDetector(stub.detector, logs[i]).raised

StubSkipEntryBelowThreshold ==
    /\ SkipEntryBelowThreshold
    /\ ~StubDetector(stub.detector, logs[i]).raised
    /\ scored'[Len(scored')] = FinalScore(logs[i], StubDetector(stub.detector, logs[i]))

StubBuildAnomaly ==
    /\ BuildAnomaly
    /\ ~StubDetector(stub.detector, logs[i]).raised
    /\ final_score' = FinalScore(logs[i], StubDetector(stub.detector, logs[i]))

StubClassifyAndAppend ==
    /\ ClassifyAndAppend
    /\ anomalies'[Len(anomalies')].classification =
          classify_anomaly(StubClassifier(stub.classifier))

StubClassifyAndResolve ==
    /\ ClassifyAndResolve
    /\ anomaly'.classification = classify_anomaly(StubClassifier(stub.classifier))

StubNotifyAndAppend ==
    /\ NotifyAndAppend
    /\ sends'[Len(sends')].delivered = stub.smtp_ok

(***************************************************************************)
(* One notification: format_anomaly_notification writes the plain-text     *)
(* body, send_email derives the HTML part from that body.                  *)
(***************************************************************************)
\* The bands of _get_severity_color, in ten-thousandths.
RED_SCORE == 8000
AMBER_SCORE == 7000

_get_severity_color(score) ==
    IF score >= RED_SCORE THEN "#DC2626"
    ELSE IF score >= AMBER_SCORE THEN "#F59E0B"
    ELSE "#2563EB"

\* f"{score:.2f}": the decimal with two places nearest to the float, as a
\* number of hundredths.  A score that lies half way between two of them in
\* decimal is a float slightly below or above the half, and is rounded
\* accordingly.
FormatTwoDecimals(score) ==
    IF score % 100 = 50 THEN {score \div 100, (score \div 100) + 1}
    ELSE {(score + 50) \div 100}

\* float(score_line.split(':')[1].strip()) of line 72, in ten-thousandths
ParseScore(score_text) == score_text * 100

\* The sentiment scores of the entries that are notified.
NotifySentiments == 0..1000

\* final_score of the entries process_logs notifies (line 226) ...
NotifyScores ==
    { s \in { FinalScore(<< l >>, c) :
                l \in PipelineLines, c \in DetectorAnswers(NotifySentiments) } :
        IsHighSeverity(s) }

\* ... and their classification_result['category'] (line 229: one with
\* admin_emails).
NotifyTypes == { l \in Labels : get_admin_emails(l) # << >> }

InitNotify ==
    /\ nt_type \in NotifyTypes
    /\ nt_score \in NotifyScores
    /\ nt_pc = "ready"
    /\ nt_body = NoBody
    /\ nt_color = ""
    /\ InitIdlePipeline
    /\ InitIdleStore
    /\ InitIdleScore
    /\ InitIdlePattern
    /\ InitIdleClassify
    /\ InitIdleCalls
    /\ InitIdleConsumer
    /\ InitIdleSim

\* format_anomaly_notification, lines 116-126
FormatNotification ==
    /\ nt_pc = "ready"
    /\ \E text \in FormatTwoDecimals(nt_score) :
        nt_body' = [type |-> nt_type, score_text |-> text]
    /\ nt_pc' = "formatted"
    /\ UNCHANGED << nt_type, nt_score, nt_color >>

\* send_email line 36: _get_html_content(body), lines 61-76
RenderHtml ==
    /\ nt_pc = "formatted"
    /\ nt_color' = _get_severity_color(ParseScore(nt_body.score_text))
    /\ nt_pc' = "rendered"
    /\ UNCHANGED << nt_type, nt_score, nt_body >>

(***************************************************************************)
(* KafkaLogConsumer.consume_logs(websocket): one call, with or without a   *)
(* WebSocket.  Each poll is one step: the raw logs are stored, the batch   *)
(* is given to process_logs and the anomalies found are stored and sent.   *)
(***************************************************************************)
\* The groups of the consumer's state.
consumer_object == << _thread, _running, client_closed >>
consume_loop ==
    << co_websocket, co_pc, co_polls, co_logs, co_raw, co_anomalies, co_persisted >>
application == << app_pc, stop_coro, health, topic >>

\* ElasticLogStorage._extract_log_level, lines 271-281
ElasticLogStorage_extract_log_level(log) ==
    IF Contains(log, "ERROR") THEN "ERROR"
    ELSE IF Contains(log, "WARN") THEN "WARN"
    ELSE IF Contains(log, "INFO") THEN "INFO"
    ELSE IF Contains(log, "FATAL") THEN "FATAL"
    ELSE "UNKNOWN"

_extract_source(log) ==
    IF Contains(log, "DataNode") THEN "DataNode"
    ELSE IF Contains(log, "NameSystem") THEN "NameSystem"
    ELSE "Other"

\* store_raw_logs, lines 74-84: one document per log
RawDocs(raw_logs) ==
    [k \in 1..Len(raw_logs) |->
        [content |-> raw_logs[k],
         log_level |-> ElasticLogStorage_extract_log_level(raw_logs[k]),
         source |-> _extract_source(raw_logs[k])]]

\* FATAL org.apache.hadoop.hdfs.server.datanode.DataNode: DataNode is
\* shutting down due to disk failure
KafkaFatalLine ==
    Line({"FATAL", "DataNode"}, NoApprox, "text", "hdfs.server.datanode.DataNode",
         "other")
\* FATAL org.apache.hadoop.hdfs.server.datanode.DataNode: DataNode is
\* shutting down. Reason: I/O ERROR on /data1
KafkaFatalErrorLine ==
    Line({"FATAL", "ERROR", "DataNode"}, NoApprox, "text",
         "hdfs.server.datanode.DataNode", "other")
\* ERROR org.apache.hadoop.hdfs.server.datanode.DataNode: IOException in
\* block blk_123 from datanode3: Connection timed out
KafkaErrorLine ==
    Line({"ERROR", "DataNode", "Connection timed out"}, NoApprox, "text",
         "hdfs.server.datanode.DataNode", "other")
\* INFO org.apache.hadoop.hdfs.server.namenode.FSNamesystem: Roll Edit Log
KafkaInfoLine ==
    Line({"INFO"}, NoApprox, "text", "hdfs.server.namenode.FSNamesystem", "other")

\* The 'log' values of the messages of the topic, one line each.
KafkaLines == { KafkaFatalLine, KafkaFatalErrorLine, KafkaErrorLine, KafkaInfoLine }

\* What one poll returns: the logs of lines 94-102, none included.
PolledLogs ==
    {<< >>} \cup { [k \in 1..Len(b) |-> << b[k] >>] :
                      b \in BoundedSeq(KafkaLines, MaxBatch) }

\* "\n".join(logs) for logs of one line each
Join(raw_logs) == [k \in 1..Len(raw_logs) |-> raw_logs[k][1]]

\* The answers of the detector within a poll: sentiment 0 or 1.
ConsumeDetectorAnswers == { a \in DetectorAnswers({0, 1000}) : a.label = "NEGATIVE" }

\* process_logs("\n".join(logs)) when the detector gives answers[k] for the
\* k-th entry: the text and score of the records it returns.
ProcessLogs(raw_logs, answers) ==
    LET entries == Split(Strip(Join(raw_logs)))
        records == [k \in 1..Len(entries) |->
                       [text |-> entries[k],
                        score |-> FinalScore(entries[k], answers[k])]]
    IN SelectSeq(records, LAMBDA a : Qualifies(a.score))

\* "if anomalies and websocket": a WebSocket object is truthy, None is not
StoresAnomalies(found, websocket) == found # << >> /\ websocket # "None"

InitConsume ==
    /\ co_websocket \in {"None", "attached"}
    /\ co_pc = "called"
    /\ co_polls = 0
    /\ co_logs = << >> /\ co_raw = << >> /\ co_anomalies = << >>
    /\ co_persisted = << >>
    /\ _thread = "None" /\ _running = FALSE /\ client_closed = FALSE
    /\ app_pc = "off" /\ stop_coro = "none" /\ health = "" /\ topic = << >>
    /\ InitIdlePipeline
    /\ InitIdleStore
    /\ InitIdleScore
    /\ InitIdlePattern
    /\ InitIdleClassify
    /\ InitIdleCalls
    /\ InitIdleNotify
    /\ InitIdleSim

\* lines 76-87: the flag is set and the storage initialised
EnterConsume ==
    /\ co_pc = "called"
    /\ _running' = TRUE
    /\ co_pc' = "loop"
    /\ UNCHANGED << _thread, client_closed, co_websocket, co_polls, co_logs, co_raw,
                    co_anomalies, co_persisted, application >>

\* lines 76-86 with log_storage.initialize() raising, then lines 126-134
EnterFails ==
    /\ co_pc = "called"
    /\ _running' = FALSE
    /\ co_pc' = "finished"
    /\ UNCHANGED << _thread, client_closed, co_websocket, co_polls, co_logs, co_raw,
                    co_anomalies, co_persisted, application >>

\* lines 89-104 for a poll without logs
PollNothing ==
    /\ co_pc = "loop"
    /\ _running
    /\ co_polls < MaxPolls
    /\ co_polls' = co_polls + 1
    /\ co_logs' = << >> /\ co_raw' = << >> /\ co_anomalies' = << >>
    /\ co_persisted' = << >>
    /\ UNCHANGED << consumer_object, co_websocket, co_pc, application >>

\* lines 89-118 for a poll with logs
PollAndProcess ==
    /\ co_pc = "loop"
    /\ _running
    /\ co_polls < MaxPolls
    /\ \E polled \in PolledLogs \ {<< >>} :
        \E answers \in [1..Len(polled) -> ConsumeDetectorAnswers] :
            LET found == ProcessLogs(polled, answers)
            IN /\ co_logs' = polled
               /\ co_raw' = RawDocs(polled)
               /\ co_anomalies' = found
               /\ co_persisted' = IF StoresAnomalies(found, co_websocket)
                                  THEN found ELSE << >>
    /\ co_polls' = co_polls + 1
    /\ UNCHANGED << consumer_object, co_websocket, co_pc, application >>

\* lines 89-106 with es.bulk raising in store_raw_logs, then lines 120-124
PollFails ==
    /\ co_pc = "loop"
    /\ _running
    /\ co_polls < MaxPolls
    /\ co_logs' \in PolledLogs \ {<< >>}
    /\ co_raw' = << >> /\ co_anomalies' = << >> /\ co_persisted' = << >>
    /\ co_polls' = co_polls + 1
    /\ UNCHANGED << consumer_object, co_websocket, co_pc, application >>

(***************************************************************************)
(* The application lifespan: the consumer is constructed and started at    *)
(* startup, runs in its own thread while requests are served, and is       *)
(* stopped at shutdown.                                                    *)
(***************************************************************************)
InitLifespan ==
    /\ app_pc = "starting"
    /\ _thread = "None" /\ _running = FALSE /\ client_closed = FALSE
    /\ stop_coro = "none" /\ health = "" /\ topic = << >>
    /\ co_websocket = "unbound" /\ co_pc = "off" /\ co_polls = 0
    /\ co_logs = << >> /\ co_raw = << >> /\ co_anomalies = << >>
    /\ co_persisted = << >>
    /\ InitIdlePipeline
    /\ InitIdleStore
    /\ InitIdleScore
    /\ InitIdlePattern
    /\ InitIdleClassify
    /\ InitIdleCalls
    /\ InitIdleNotify
    /\ InitIdleSim

\* A producer writes a log to the topic.
Produce ==
    /\ Len(topic) < MaxPending
    /\ \E line \in KafkaLines : topic' = Append(topic, line)
    /\ UNCHANGED << consumer_object, consume_loop, app_pc, stop_coro, health >>

\* main.py line 15: KafkaLogConsumer(), lines 24-52
ConstructConsumer ==
    /\ app_pc = "starting"
    /\ _thread' = "None"
    /\ _running' = FALSE
    /\ app_pc' = "constructed"
    /\ UNCHANGED << client_closed, consume_loop, stop_coro, health, topic >>

\* main.py line 15 with the constructor raising (lines 50-52): the finally
\* branch finds no app.state.kafka_consumer and the application does not start
ConstructFails ==
    /\ app_pc = "starting"
    /\ app_pc' = "failed"
    /\ UNCHANGED << consumer_object, consume_loop, stop_coro, health, topic >>

\* main.py lines 16-19: start(), lines 136-143, then the application serves
StartConsumer ==
    /\ app_pc = "constructed"
    /\ _thread = "None"
    /\ _thread' = "alive"
    /\ app_pc' = "serving"
    /\ UNCHANGED << _running, client_closed, consume_loop, stop_coro, health, topic >>

\* The thread runs _run_async_consumer, lines 145-152: self.consume_logs()
\* lacks the websocket argument, the call raises TypeError before the body of
\* consume_logs starts, the loop is closed and the thread ends.
ThreadRuns ==
    /\ _thread = "alive"
    /\ _thread' = "finished"
    /\ UNCHANGED << _running, client_closed, consume_loop, application >>

\* main.py lines 62-73
HealthCheck ==
    /\ app_pc = "serving"
    /\ health' = IF _thread = "alive" THEN "running" ELSE "not running"
    /\ UNCHANGED << consumer_object, consume_loop, app_pc, stop_coro, topic >>

\* main.py lines 21-33: stop() is called and not awaited, so the coroutine
\* it returns never runs; "Kafka consumer stopped" is printed; router has no
\* log_processor attribute.
Shutdown ==
    /\ app_pc = "serving"
    /\ stop_coro' = "never awaited"
    /\ app_pc' = "stopped"
    /\ UNCHANGED << consumer_object, consume_loop, health, topic >>

(***************************************************************************)
(* Two WebSocket connections running simulations on the module-level       *)
(* HDFSLogSimulator of routes.py.  Each simulation is an asyncio task; a   *)
(* step of the model runs a task from one await to the next.               *)
(***************************************************************************)
InitSim ==
    /\ log_storage = 0 /\ closed = {} /\ storages = 0 /\ started = 0
    /\ task = [c \in Connections |-> "none"]
    /\ handle = [c \in Connections |-> 0]
    /\ used = [c \in Connections |-> ""]
    /\ outcome = [c \in Connections |-> ""]
    /\ InitIdlePipeline
    /\ InitIdleStore
    /\ InitIdleScore
    /\ InitIdlePattern
    /\ InitIdleClassify
    /\ InitIdleCalls
    /\ InitIdleNotify
    /\ InitIdleConsumer

\* The task of c evaluates self.log_storage.<operation>(...) (lines 229 and
\* 234) and goes on to await it.  On None the attribute access raises
\* AttributeError: the except of lines 239-241 breaks and cleanup finds
\* nothing to close.  What an operation on a closed client does depends on
\* the client library: it raises, or it reopens a session and proceeds.
UseStorage(c, awaiting) ==
    IF log_storage = 0
    THEN /\ used' = [used EXCEPT ![c] = "None"]
         /\ outcome' = [outcome EXCEPT ![c] = "AttributeError"]
         /\ task' = [task EXCEPT ![c] = "done"]
         /\ handle' = [handle EXCEPT ![c] = 0]
    ELSE /\ used' = [used EXCEPT ![c] = IF log_storage \in closed THEN "closed"
                                        ELSE "open"]
         /\ handle' = [handle EXCEPT ![c] = log_storage]
         /\ \E raises \in (IF log_storage \in closed THEN BOOLEAN ELSE {FALSE}) :
             IF raises
             THEN /\ outcome' = [outcome EXCEPT ![c] = "es_error"]
                  /\ task' = [task EXCEPT ![c] = "closing"]
             ELSE /\ task' = [task EXCEPT ![c] = awaiting]
                  /\ UNCHANGED outcome

\* The task of c leaves the loop and enters cleanup, lines 207-210: up to
\* the await of close() on whatever self.log_storage is now.
EnterCleanup(c, why) ==
    /\ outcome' = [outcome EXCEPT ![c] = why]
    /\ IF log_storage = 0
       THEN /\ task' = [task EXCEPT ![c] = "done"]
            /\ handle' = [handle EXCEPT ![c] = 0]
       ELSE /\ task' = [task EXCEPT ![c] = "closing"]
            /\ handle' = [handle EXCEPT ![c] = log_storage]
    /\ UNCHANGED used

\* routes.py lines 26-30: start_simulation when the connection has no task
\* running
StartSimulation(c) ==
    /\ task[c] \in {"none", "done"}
    /\ started < MaxSimulations
    /\ started' = started + 1
    /\ task' = [task EXCEPT ![c] = "created"]
    /\ used' = [used EXCEPT ![c] = ""]
    /\ outcome' = [outcome EXCEPT ![c] = ""]
    /\ handle' = [handle EXCEPT ![c] = 0]
    /\ UNCHANGED << log_storage, closed, storages >>

\* simulate_logs lines 215-216 and initialize lines 204-205, up to the await
TaskBegins(c) ==
    /\ task[c] = "created"
    /\ storages' = storages + 1
    /\ log_storage' = storages + 1
    /\ handle' = [handle EXCEPT ![c] = storages + 1]
    /\ task' = [task EXCEPT ![c] = "initializing"]
    /\ UNCHANGED << closed, started, used, outcome >>

\* routes.py lines 36-41 and 54-55 for a task that has not run yet: the
\* coroutine is never entered
CancelBeforeStart(c) ==
    /\ task[c] = "created"
    /\ task' = [task EXCEPT ![c] = "done"]
    /\ outcome' = [outcome EXCEPT ![c] = "cancelled"]
    /\ UNCHANGED << log_storage, closed, storages, started, handle, used >>

\* line 205 returns; lines 217-229 of the first iteration
InitializeReturns(c) ==
    /\ task[c] = "initializing"
    /\ \E es_ok \in BOOLEAN :
        IF es_ok THEN UseStorage(c, "storing_raw") ELSE EnterCleanup(c, "es_error")
    /\ UNCHANGED << log_storage, closed, storages, started >>

\* line 229 returns; lines 231-234, or 231-238 when nothing was found
StoreRawReturns(c) ==
    /\ task[c] = "storing_raw"
    /\ \E es_ok \in BOOLEAN, found \in BOOLEAN :
        IF ~es_ok THEN EnterCleanup(c, "es_error")
        ELSE IF found THEN UseStorage(c, "storing_anomalies")
        ELSE /\ task' = [task EXCEPT ![c] = "sleeping"]
             /\ UNCHANGED << handle, used, outcome >>
    /\ UNCHANGED << log_storage, closed, storages, started >>

\* line 234 returns; lines 235-238
StoreAnomaliesReturns(c) ==
    /\ task[c] = "storing_anomalies"
    /\ \E es_ok \in BOOLEAN :
        IF es_ok
        THEN /\ task' = [task EXCEPT ![c] = "sleeping"]
             /\ UNCHANGED << handle, used, outcome >>
        ELSE EnterCleanup(c, "es_error")
    /\ UNCHANGED << log_storage, closed, storages, started >>

\* line 238 returns; lines 217-229 of the next iteration
SleepReturns(c) ==
    /\ task[c] = "sleeping"
    /\ UseStorage(c, "storing_raw")
    /\ UNCHANGED << log_storage, closed, storages, started >>

\* routes.py lines 36-41 (stop_simulation) and 54-55 (disconnect): the await
\* the task is suspended at raises CancelledError, which "except Exception"
\* does not catch, and the finally of line 242 runs cleanup
CancelSimulation(c) ==
    /\ task[c] \in {"initializing", "storing_raw", "storing_anomalies", "sleeping"}
    /\ EnterCleanup(c, "cancelled")
    /\ UNCHANGED << log_storage, closed, storages, started >>

\* lines 210-211: close() returns and self.log_storage is set to None
CloseReturns(c) ==
    /\ task[c] = "closing"
    /\ closed' = closed \cup {handle[c]}
    /\ log_storage' = 0
    /\ task' = [task EXCEPT ![c] = "done"]
    /\ handle' = [handle EXCEPT ![c] = 0]
    /\ UNCHANGED << storages, started, used, outcome >>

\* routes.py lines 54-55 for a task suspended in cleanup: line 211 is not
\* reached, and close() has completed or not
CancelWhileClosing(c) ==
    /\ task[c] = "closing"
    /\ \E completed \in BOOLEAN :
        closed' = IF completed THEN closed \cup {handle[c]} ELSE closed
    /\ task' = [task EXCEPT ![c] = "done"]
    /\ handle' = [handle EXCEPT ![c] = 0]
    /\ UNCHANGED << log_storage, storages, started, used, outcome >>

(***************************************************************************)
(* Specifications.                                                         *)
(***************************************************************************)
\* One call of process_logs.
Next ==
    \/ (ReturnEmpty /\ UNCHANGED outside_pipeline)
    \/ (SplitLogs /\ UNCHANGED outside_pipeline)
    \/ (SkipEntryOnError /\ UNCHANGED outside_pipeline)
    \/ (SkipEntryBelowThreshold /\ UNCHANGED outside_pipeline)
    \/ (BuildAnomaly /\ UNCHANGED outside_pipeline)
    \/ (ClassifyAndAppend /\ UNCHANGED outside_pipeline)
    \/ (ClassifyAndResolve /\ UNCHANGED outside_pipeline)
    \/ (NotifyAndAppend /\ UNCHANGED outside_pipeline)
    \/ (AppendUnnotified /\ UNCHANGED outside_pipeline)
    \/ (ReturnAnomalies /\ UNCHANGED outside_pipeline)

Spec == Init /\ [][Next]_vars

\* The scoring of one entry.
NextScore == ScoreEntry /\ UNCHANGED outside_score

SpecScore == InitScore /\ [][NextScore]_vars

\* The pattern classification of one text.
NextPattern ==
    \/ (DetermineReturns /\ UNCHANGED outside_pattern)
    \/ (DetermineRaises /\ UNCHANGED outside_pattern)

SpecPattern == InitPattern /\ [][NextPattern]_vars

\* One call of store_anomalies.
NextStore ==
    \/ (StoreAnomaliesRaises /\ UNCHANGED outside_store)
    \/ (StoreAnomaliesBulk /\ UNCHANGED outside_store)
    \/ (StoreNothing /\ UNCHANGED outside_store)

SpecStore == InitStore /\ [][NextStore]_vars

\* One call of classify_anomaly.
NextClassify ==
    \/ (ClassifyReturns /\ UNCHANGED outside_classify)
    \/ (ClassifyFallsBack /\ UNCHANGED outside_classify)

SpecClassify == InitClassify /\ [][NextClassify]_vars

\* Successive calls of process_logs on one LogProcessor.
NextCalls ==
    \/ (CallProcessLogs /\ UNCHANGED outside_calls)
    \/ (ReturnEmpty /\ UNCHANGED << outside_calls, calls_vars >>)
    \/ (SplitLogs /\ UNCHANGED << outside_calls, calls_vars >>)
    \/ (StubSkipEntryOnError /\ UNCHANGED << outside_calls, calls_vars >>)
    \/ (StubSkipEntryBelowThreshold /\ UNCHANGED << outside_calls, calls_vars >>)
    \/ (StubBuildAnomaly /\ UNCHANGED << outside_calls, calls_vars >>)
    \/ (StubClassifyAndAppend /\ UNCHANGED << outside_calls, calls_vars >>)
    \/ (StubClassifyAndResolve /\ UNCHANGED << outside_calls, calls_vars >>)
    \/ (StubNotifyAndAppend /\ UNCHANGED << outside_calls, calls_vars >>)
    \/ (AppendUnnotified /\ UNCHANGED << outside_calls, calls_vars >>)
    \/ (ReturnAnomalies /\ UNCHANGED << outside_calls, calls_vars >>)
    \/ (ReturnToCaller /\ UNCHANGED outside_calls)

SpecCalls == InitCalls /\ [][NextCalls]_vars

\* One notification.
NextNotify ==
    \/ (FormatNotification /\ UNCHANGED outside_notify)
    \/ (RenderHtml /\ UNCHANGED outside_notify)

SpecNotify == InitNotify /\ [][NextNotify]_vars

\* One call of consume_logs.
NextConsume ==
    \/ (EnterConsume /\ UNCHANGED outside_consumer)
    \/ (EnterFails /\ UNCHANGED outside_consumer)
    \/ (PollNothing /\ UNCHANGED outside_consumer)
    \/ (PollAndProcess /\ UNCHANGED outside_consumer)
    \/ (PollFails /\ UNCHANGED outside_consumer)

SpecConsume == InitConsume /\ [][NextConsume]_vars

\* The application from startup to shutdown.
NextLifespan ==
    \/ (Produce /\ UNCHANGED outside_consumer)
    \/ (ConstructConsumer /\ UNCHANGED outside_consumer)
    \/ (ConstructFails /\ UNCHANGED outside_consumer)
    \/ (StartConsumer /\ UNCHANGED outside_consumer)
    \/ (ThreadRuns /\ UNCHANGED outside_consumer)
    \/ (HealthCheck /\ UNCHANGED outside_consumer)
    \/ (Shutdown /\ UNCHANGED outside_consumer)

SpecLifespan == InitLifespan /\ [][NextLifespan]_vars

\* The simulations of two connections.
NextSim ==
    \/ \E c \in Connections : (StartSimulation(c) /\ UNCHANGED outside_sim)
    \/ \E c \in Connections : (TaskBegins(c) /\ UNCHANGED outside_sim)
    \/ \E c \in Connections : (CancelBeforeStart(c) /\ UNCHANGED outside_sim)
    \/ \E c \in Connections : (InitializeReturns(c) /\ UNCHANGED outside_sim)
    \/ \E c \in Connections : (StoreRawReturns(c) /\ UNCHANGED outside_sim)
    \/ \E c \in Connections : (StoreAnomaliesReturns(c) /\ UNCHANGED outside_sim)
    \/ \E c \in Connections : (SleepReturns(c) /\ UNCHANGED outside_sim)
    \/ \E c \in Connections : (CancelSimulation(c) /\ UNCHANGED outside_sim)
    \/ \E c \in Connections : (CloseReturns(c) /\ UNCHANGED outside_sim)
    \/ \E c \in Connections : (CancelWhileClosing(c) /\ UNCHANGED outside_sim)

SpecSim == InitSim /\ [][NextSim]_vars

(***************************************************************************)
(* Properties.                                                             *)
(***************************************************************************)
\* The entries whose processing is over.
Finished == { k \in 1..Len(scored) : k < i }

HasRecord(k) == \E r \in 1..Len(anomalies) : anomalies[r].entry = k

RecordOf(k) == anomalies[CHOOSE r \in 1..Len(anomalies) : anomalies[r].entry = k]

\* The category has a configured, non-empty recipient.
Routable(category) ==
    /\ category \in DOMAIN admin_emails
    /\ admin_emails[category] # EnvUnset
    /\ admin_emails[category] # ""

IsContinuation(line) == line.lead \in {"tab", "at"}

\* C1 (as stated): a JvmPauseMonitor line with a pause of approximately N ms
\* has final score >= 0.9 when N > 15000 and >= 0.7 when N > 5000, for every
\* level and every sentiment.
C1_PauseFloorsFinalScore ==
    (/\ sc_pc = "scored"
     /\ Contains(sc_log, "JvmPauseMonitor")
     /\ Contains(sc_log, "pause")
     /\ ApproxOf(sc_log) >= 0)
    => /\ (ApproxOf(sc_log) > 15000 => sc_score >= 9000)
       /\ (ApproxOf(sc_log) > 5000 => sc_score >= 7000)

\* C2: an entry that was scored has a record in the result if and only if
\* its final_score is strictly greater than 0.5, and the record carries
\* that score.
C2_RecordIffAboveThreshold ==
    \A k \in Finished :
        scored[k] # Raised =>
            /\ HasRecord(k) <=> scored[k] > 5000
            /\ HasRecord(k) => RecordOf(k).score = scored[k]

\* C2 witness: a finished call with an entry scored exactly 0.5 and left
\* out, next to an entry above 0.5 that has its record.
C2_Witness ==
    /\ pc = "done"
    /\ \E k \in Finished : scored[k] = 5000 /\ ~HasRecord(k)
    /\ \E k \in Finished : scored[k] > 5000 /\ HasRecord(k)

\* C3 (as stated): the classifier is called for an entry, and a
\* classification is attached to its record, only when final_score > 0.7.
C3_ClassifierOnlyAboveNotify ==
    /\ \A k \in classifier_calls : scored[k] > 7000
    /\ \A r \in 1..Len(anomalies) :
        anomalies[r].classification.category # "" => anomalies[r].score > 7000

\* C3 (amended): the classifier is called for an entry if and only if its
\* final_score > 0.5, and every record of the result carries a
\* classification, those with 0.5 < final_score <= 0.7 included.
C3_ClassifierIffRecord ==
    /\ \A k \in Finished :
        k \in classifier_calls <=> (scored[k] # Raised /\ scored[k] > 5000)
    /\ \A r \in 1..Len(anomalies) :
        /\ anomalies[r].entry \in classifier_calls
        /\ anomalies[r].classification.category \in
              {category_labels[k] : k \in 1..Len(category_labels)} \cup {"UNKNOWN"}

\* C3 witness: a returned record with 0.5 < score <= 0.7 that carries one of
\* the six categories.
C3_Witness ==
    /\ pc = "done"
    /\ \E r \in 1..Len(anomalies) :
        /\ anomalies[r].score > 5000
        /\ anomalies[r].score <= 7000
        /\ anomalies[r].classification.category = "NETWORK"
        /\ anomalies[r].entry \in classifier_calls

\* C4: send_email is called exactly once for each entry whose final_score
\* > 0.7 and whose classified category has a non-empty configured
\* recipient, and for no other entry.
C4_SendIffHighAndRoutable ==
    /\ \A a, b \in 1..Len(sends) : a < b => sends[a].entry < sends[b].entry
    /\ \A a \in 1..Len(sends) :
        /\ scored[sends[a].entry] > 7000
        /\ Routable(sends[a].anomaly_type)
        /\ sends[a].to_emails = << admin_emails[sends[a].anomaly_type] >>
        /\ HasRecord(sends[a].entry)
        /\ RecordOf(sends[a].entry).classification.category = sends[a].anomaly_type
    /\ \A r \in 1..Len(anomalies) :
        (anomalies[r].score > 7000 /\ Routable(anomalies[r].classification.category))
            => \E a \in 1..Len(sends) : sends[a].entry = anomalies[r].entry

\* C4 witness: a finished call with one send, for a routable record above
\* 0.7, and a record above 0.7 whose category has no recipient.
C4_Witness ==
    /\ pc = "done"
    /\ Len(sends) = 1
    /\ \E r \in 1..Len(anomalies) :
        /\ anomalies[r].score > 7000
        /\ ~Routable(anomalies[r].classification.category)
    /\ \E r \in 1..Len(anomalies) :
        /\ anomalies[r].score > 7000
        /\ Routable(anomalies[r].classification.category)

\* The rule list 1..14 of the pattern classifier, first match first.
FirstMatchingRule(text) ==
    IF Contains(text, "JvmPauseMonitor") /\ ApproxOf(text) >= 0
    THEN << "PERFORMANCE", "JVM_PAUSE" >>
    ELSE IF Contains(text, "Slow BlockReceiver") \/ ContainsLower(text, "slow io")
    THEN << "PERFORMANCE", "SLOW_IO" >>
    ELSE IF Contains(text, "NameNode")
            /\ Contains(text, "Failed to start active state service")
    THEN << "AVAILABILITY", "STARTUP_FAILURE" >>
    ELSE IF Contains(text, "NameNode") /\ Contains(text, "Lost leadership")
    THEN << "AVAILABILITY", "LEADERSHIP_LOSS" >>
    ELSE IF Contains(text, "BlockManager") /\ Contains(text, "corrupted")
    THEN << "DATA", "CORRUPTION" >>
    ELSE IF Contains(text, "BlockManager") /\ Contains(text, "Unable to place replica")
    THEN << "DATA", "REPLICA_PLACEMENT" >>
    ELSE IF Contains(text, "BlockManager") /\ Contains(text, "Total load")
    THEN << "RESOURCE", "HIGH_LOAD" >>
    ELSE IF Contains(text, "Login failed")
    THEN << "SECURITY", "LOGIN_FAILURE" >>
    ELSE IF Contains(text, "authentication failed")
    THEN << "SECURITY", "AUTH_FAILURE" >>
    ELSE IF Contains(text, "Token") /\ Contains(text, "ERROR")
    THEN << "SECURITY", "TOKEN_ERROR" >>
    ELSE IF Contains(text, "Connection timed out")
    THEN << "NETWORK", "TIMEOUT" >>
    ELSE IF Contains(text, "Network error") \/ Contains(text, "Connection refused")
    THEN << "NETWORK", "CONNECTION_ERROR" >>
    ELSE IF ContainsLower(text, "disk space") \/ Contains(text, "capacity exceeded")
    THEN << "RESOURCE", "DISK_SPACE" >>
    ELSE IF Contains(text, "Memory usage") \/ Contains(text, "OutOfMemoryError")
    THEN << "RESOURCE", "MEMORY" >>
    ELSE << "UNKNOWN", "GENERAL" >>

\* C5 (as stated): whatever _determine_anomaly_type returns is the category
\* and sub_type of the first rule 1..14 the text satisfies.
C5_FirstMatchingRuleWins ==
    pt_pc = "returned" =>
        << pt_out.type, pt_out.sub_type >> = FirstMatchingRule(pt_text)

\* C6 (as stated): _determine_anomaly_type raises for no text, so
\* store_anomalies never fails because of the text of an anomaly.
C6_StoreNeverFailsOnText ==
    store_pc # "idle" =>
        /\ store_pc # "raised"
        /\ \A k \in 1..Len(st_anomalies) :
            _determine_anomaly_type(st_anomalies[k].text).type # "RAISED"

\* C7 (as stated): the input is split only where a new entry starts: no
\* element of logs after the first is a tab-indented or "at " continuation
\* line, and none is scored as an entry of its own.
C7_ContinuationStaysWithEntry ==
    /\ \A k \in 2..Len(logs) : ~IsContinuation(logs[k][1])
    /\ \A k \in 2..Len(scored) : ~IsContinuation(logs[k][1])

\* C8 (as stated): an entry whose sentiment scorer failed is scored with
\* sentiment 0 and returned when that score exceeds 0.5.
C8_FailedSentimentCountsAsZero ==
    \A k \in Finished :
        LET zero == FinalScore(logs[k], [raised |-> FALSE, label |-> "NEGATIVE", score |-> 0])
        IN (scored[k] = Raised /\ zero > 5000)
              => (HasRecord(k) /\ RecordOf(k).score = zero)

\* C9: process_logs never ends by raising; an entry whose processing raised
\* has no record; every entry, those after a failing one included, is
\* processed before the list is returned.
C9_EntryFailureIsIsolated ==
    /\ pc \in {"start", "loop", "classify", "notify", "done"}
    /\ \A k \in 1..Len(scored) : scored[k] = Raised => ~HasRecord(k)
    /\ (pc = "done" /\ ~IsFalsy(log_content)) => Len(scored) = Len(logs)

\* C9 witness: a finished call in which an entry raised and a later entry
\* was processed and returned.
C9_Witness ==
    /\ pc = "done"
    /\ \E k \in 1..Len(scored) :
        /\ scored[k] = Raised
        /\ \E r \in 1..Len(anomalies) : anomalies[r].entry > k

\* C10: the result is an order-preserving subsequence of the entries: the
\* records' entries strictly increase, each record is the record of its
\* entry, and no element is a placeholder.
C10_OrderPreservingSubsequence ==
    /\ \A a, b \in 1..Len(anomalies) : a < b => anomalies[a].entry < anomalies[b].entry
    /\ \A r \in 1..Len(anomalies) :
        /\ anomalies[r].entry \in 1..Len(logs)
        /\ anomalies[r].text = logs[anomalies[r].entry]
        /\ anomalies[r].score > 5000
    /\ Len(anomalies) <= Len(logs)

\* C10 witness: a finished call that returns two records.
C10_Witness ==
    /\ pc = "done"
    /\ Len(anomalies) >= 2

\* The level tokens of the first physical line of an entry.
LevelTokensOf(log) == log[1].tokens \cap LevelTokens

\* The sentiment an answer of the detector stands for, in thousandths.
SentimentGiven(cls) == IF cls.label = "NEGATIVE" THEN cls.score ELSE 1000 - cls.score

\* C11: the level of an entry is FATAL if it contains "FATAL", else ERROR if
\* it contains "ERROR", else WARN if it contains "WARN", else INFO if it
\* contains "INFO", else UNKNOWN; the level stored in the record is the level
\* the score was computed from.
C11_LevelByPriority ==
    sc_pc = "scored" =>
        /\ sc_level = (IF Contains(sc_log, "FATAL") THEN "FATAL"
                       ELSE IF Contains(sc_log, "ERROR") THEN "ERROR"
                       ELSE IF Contains(sc_log, "WARN") THEN "WARN"
                       ELSE IF Contains(sc_log, "INFO") THEN "INFO"
                       ELSE "UNKNOWN")
        /\ sc_anomaly # NoAnomaly =>
              /\ sc_anomaly.level = sc_level
              /\ sc_anomaly.score =
                    _calculate_anomaly_score(
                        sc_anomaly.level, SentimentGiven(sc_cls),
                        AdditionalFactors(_parse_jvm_pause(sc_log),
                                          _parse_stack_trace(sc_log)))

\* C11 witness: a scored entry holding FATAL next to another level token,
\* whose record has level FATAL.
C11_Witness ==
    /\ sc_pc = "scored"
    /\ "FATAL" \in LevelTokensOf(sc_log)
    /\ LevelTokensOf(sc_log) \cap {"ERROR", "WARN", "INFO"} # {}
    /\ sc_anomaly # NoAnomaly
    /\ sc_anomaly.level = "FATAL"

\* C12: whatever the level (UNKNOWN for a line without a level token), the
\* sentiment in [0,1] and the additional factors, the final score is in
\* [0,1], and so is the score of the record.
C12_ScoreInUnitInterval ==
    sc_pc = "scored" =>
        /\ sc_score >= 0
        /\ sc_score <= 10000
        /\ sc_anomaly # NoAnomaly =>
              (sc_anomaly.score >= 0 /\ sc_anomaly.score <= 10000)

\* C12 witness: a FATAL entry with sentiment 1.0 is scored exactly 1.0 and
\* its record carries that score.
C12_Witness ==
    /\ sc_pc = "scored"
    /\ sc_level = "FATAL"
    /\ SentimentGiven(sc_cls) = 1000
    /\ sc_score = 10000
    /\ sc_anomaly.score = 10000

\* The first line of the argument is the FATAL DataNode shutdown line and
\* the argument holds nothing else.
IsFatalBatch == Len(logs) = 1 /\ logs[1] = << FatalLine >>

\* C13 (as stated): a batch whose single line is a FATAL line returns exactly
\* one record with level FATAL and score >= 0.75 for every sentiment, and a
\* batch none of whose lines qualifies returns an empty list.
C13_FatalScoresAtLeast075 ==
    /\ (pc = "done" /\ IsFatalBatch /\ scored[1] # Raised) =>
          /\ Len(anomalies) = 1
          /\ anomalies[1].level = "FATAL"
          /\ anomalies[1].score >= 7500
    /\ (pc = "done" /\ \A k \in 1..Len(scored) : scored[k] = Raised \/ scored[k] <= 5000)
          => anomalies = << >>

\* C13 (amended): such a batch returns exactly one record with level FATAL
\* and score 0.7 + 0.3 * sentiment, hence in [0.7, 1.0]; and a batch none of
\* whose lines qualifies returns an empty list.
C13_FatalScoresAtLeast07 ==
    /\ (pc = "done" /\ IsFatalBatch /\ scored[1] # Raised) =>
          /\ Len(anomalies) = 1
          /\ anomalies[1].level = "FATAL"
          /\ anomalies[1].text = << FatalLine >>
          /\ anomalies[1].score >= 7000
          /\ anomalies[1].score <= 10000
          /\ anomalies[1].score \in { 7000 + (3 * s) : s \in PipelineDetectorScores }
    /\ (pc = "done" /\ \A k \in 1..Len(scored) : scored[k] = Raised \/ scored[k] <= 5000)
          => anomalies = << >>

\* C13 witness: the FATAL batch returned with its one record scored exactly
\* 0.7 (sentiment 0).
C13_Witness ==
    /\ pc = "done"
    /\ IsFatalBatch
    /\ Len(anomalies) = 1
    /\ anomalies[1].level = "FATAL"
    /\ anomalies[1].score = 7000

\* The finished entries that are the ERROR DataNode "Connection timed out"
\* line and for which the detector answered.
ErrorEntries == { k \in Finished : logs[k] = << ErrorLine >> /\ scored[k] # Raised }

\* C14 (as stated): an ERROR entry without a pattern floor yields exactly one
\* record, with level ERROR and final_score within [0.525, 0.75] for every
\* sentiment, whose pattern category is NETWORK/TIMEOUT.
C14_ErrorScoreUpTo075 ==
    \A k \in ErrorEntries :
        /\ Cardinality({ r \in 1..Len(anomalies) : anomalies[r].entry = k }) = 1
        /\ RecordOf(k).level = "ERROR"
        /\ RecordOf(k).score >= 5250
        /\ RecordOf(k).score <= 7500
        /\ AnomalyDoc(RecordOf(k)).type = "NETWORK"
        /\ AnomalyDoc(RecordOf(k)).sub_type = "TIMEOUT"

\* C14 (amended): such an entry yields exactly one record, with level ERROR
\* and final_score 0.525 + 0.3 * sentiment, hence within [0.525, 0.825],
\* whose pattern category is NETWORK/TIMEOUT.
C14_ErrorScoreUpTo0825 ==
    \A k \in ErrorEntries :
        /\ Cardinality({ r \in 1..Len(anomalies) : anomalies[r].entry = k }) = 1
        /\ RecordOf(k).level = "ERROR"
        /\ RecordOf(k).score = scored[k]
        /\ RecordOf(k).score >= 5250
        /\ RecordOf(k).score <= 8250
        /\ RecordOf(k).score \in { 5250 + (3 * s) : s \in PipelineDetectorScores }
        /\ AnomalyDoc(RecordOf(k)).type = "NETWORK"
        /\ AnomalyDoc(RecordOf(k)).sub_type = "TIMEOUT"

\* C14 witness: a returned record of the ERROR line scored 0.825
\* (sentiment 1.0), above the stated upper bound.
C14_Witness ==
    /\ pc = "done"
    /\ \E k \in ErrorEntries :
        /\ HasRecord(k)
        /\ RecordOf(k).score = 8250
        /\ AnomalyDoc(RecordOf(k)).sub_type = "TIMEOUT"

\* No adjustment of the base score applies to the entry: no parsed pause
\* over 5000 ms and no NullPointerException or IOException stack trace.
NoPatternFloor(log) ==
    /\ ~(/\ Contains(log, "JvmPauseMonitor")
         /\ Contains(log, "pause")
         /\ ApproxOf(log) > 5000)
    /\ ~(/\ (ContainsNewlineTab(log) \/ ContainsNewlineAt(log))
         /\ log[1].exc \in {"NullPointerException", "IOException"})

\* C15 (as stated): an entry whose level is INFO and whose sentiment is 0.0
\* yields no record, whatever else it contains.
C15_InfoWithoutSentimentNeverQualifies ==
    (sc_pc = "scored" /\ sc_level = "INFO" /\ SentimentGiven(sc_cls) = 0)
        => sc_anomaly = NoAnomaly

\* C15 (amended): an entry whose level is INFO, whose sentiment is 0.0 and
\* to which no adjustment of the base score applies is scored 0.175 and
\* yields no record; an INFO JvmPauseMonitor entry with a pause of more than
\* 15000 ms is scored 0.63 at sentiment 0.0 and yields a record.
C15_InfoWithoutFloorNeverQualifies ==
    (sc_pc = "scored" /\ sc_level = "INFO" /\ SentimentGiven(sc_cls) = 0) =>
        /\ NoPatternFloor(sc_log) => (sc_score = 1750 /\ sc_anomaly = NoAnomaly)
        /\ (/\ Contains(sc_log, "JvmPauseMonitor")
            /\ Contains(sc_log, "pause")
            /\ ApproxOf(sc_log) > 15000)
              => (sc_score = 6300 /\ sc_anomaly # NoAnomaly /\ sc_anomaly.score = 6300)

\* C15 witness: an INFO entry at sentiment 0.0 with a pause of 5000 ms, which
\* sets no floor, scored 0.175 and without a record.
C15_Witness ==
    /\ sc_pc = "scored"
    /\ sc_level = "INFO"
    /\ SentimentGiven(sc_cls) = 0
    /\ Contains(sc_log, "JvmPauseMonitor")
    /\ ApproxOf(sc_log) = 5000
    /\ sc_score = 1750
    /\ sc_anomaly = NoAnomaly

\* C16: when the classifier raises for an entry, its record is returned with
\* category UNKNOWN and confidence 0.0, no recipient is resolved and
\* send_email is not called for it, a score above 0.7 included.
C16_ClassifierFailureYieldsUnknown ==
    /\ \A r \in 1..Len(anomalies) :
        anomalies[r].classification.category = "UNKNOWN" =>
            /\ anomalies[r].classification.confidence = 0
            /\ anomalies[r].entry \in classifier_calls
            /\ ~\E a \in 1..Len(sends) : sends[a].entry = anomalies[r].entry
    /\ (pc = "notify" /\ anomaly.classification.category = "UNKNOWN")
          => admin_to = << >>
    /\ \A a \in 1..Len(sends) : sends[a].anomaly_type # "UNKNOWN"
    /\ \A k \in Finished : k \in classifier_calls => HasRecord(k)

\* C16 witness: a returned record above 0.7 classified UNKNOWN with
\* confidence 0.0, for which nothing was sent.
C16_Witness ==
    /\ pc = "done"
    /\ \E r \in 1..Len(anomalies) :
        /\ anomalies[r].score > 7000
        /\ anomalies[r].classification.category = "UNKNOWN"
        /\ anomalies[r].classification.confidence = 0
        /\ ~\E a \in 1..Len(sends) : sends[a].entry = anomalies[r].entry

\* C17: when send_email fails for an entry it returns False, the entry's
\* record is in the result exactly as it was built, and the entries after
\* it are processed.
C17_FailedSendKeepsRecord ==
    /\ \A a \in 1..Len(sends) :
        ~sends[a].delivered =>
            /\ HasRecord(sends[a].entry)
            /\ RecordOf(sends[a].entry) =
                  [NewAnomaly(sends[a].entry, logs[sends[a].entry],
                              scored[sends[a].entry])
                     EXCEPT !.classification = RecordOf(sends[a].entry).classification]
            /\ RecordOf(sends[a].entry).classification.category = sends[a].anomaly_type
    /\ (pc = "done" /\ logs # << >>) => Len(scored) = Len(logs)

\* C17 witness: a finished call in which the send for the first entry
\* failed, and both that entry and the next one have their records.
C17_Witness ==
    /\ pc = "done"
    /\ \E a \in 1..Len(sends) :
        /\ ~sends[a].delivered
        /\ sends[a].entry = 1
        /\ HasRecord(1)
        /\ HasRecord(2)

\* C18: given None or the empty string, process_logs returns an empty list
\* and calls neither the sentiment scorer, nor the classifier, nor
\* send_email.
C18_EmptyInputReturnsEmpty ==
    (log_content = << >> \/ log_content = << EmptyLine >>) =>
        /\ pc \in {"start", "done"}
        /\ logs = << >>
        /\ anomalies = << >>
        /\ scored = << >>
        /\ classifier_calls = {}
        /\ sends = << >>

\* C18 witness: the call given the empty string has returned.
C18_Witness ==
    /\ pc = "done"
    /\ log_content = << EmptyLine >>
    /\ anomalies = << >>

\* C19: two calls of process_logs with the same argument and the same
\* deterministic capabilities return equal lists (the records carry every
\* field but the timestamp) and cause the same sends, whatever was processed
\* in between, and no call changes a field of the LogProcessor.
C19_SameInputSameResult ==
    /\ \A a, b \in 1..Len(history) :
        history[a].input = history[b].input =>
            /\ history[a].output = history[b].output
            /\ history[a].sends = history[b].sends
    /\ vector_store = "None"

\* C19 witness: three finished calls, the first and the third with the same
\* argument and a different one in between, each returning records.
C19_Witness ==
    /\ Len(history) >= 3
    /\ history[1].input = history[3].input
    /\ history[2].input # history[1].input
    /\ history[1].output # << >>
    /\ history[2].output # << >>
    /\ history[3].output = history[1].output

\* The position of the highest score in an answer of the backend.
TopOf(result) ==
    CHOOSE k \in 1..Len(result.scores) :
        \A j \in 1..Len(result.scores) : result.scores[j] <= result.scores[k]

\* C20 (as stated): when the backend answers, classify_anomaly returns the
\* label the backend scored highest, that score as confidence, and for each
\* of the 6 labels the score the backend gave that label, in whatever order
\* the backend lists its labels.
C20_CategoryIsBestLabel ==
    (cl_pc = "returned" /\ ~cl_result.raised) =>
        /\ cl_out.category = cl_result.labels[TopOf(cl_result)]
        /\ cl_out.confidence = cl_result.scores[TopOf(cl_result)]
        /\ \A k \in 1..Len(category_labels) :
            \A j \in 1..Len(cl_result.labels) :
                cl_result.labels[j] = category_labels[k]
                    => cl_out.scores[k] = cl_result.scores[j]

\* C21 (as stated): the colour of the HTML part is the band of the unrounded
\* final_score: red iff final_score >= 0.8, amber iff 0.7 <= final_score <
\* 0.8, blue otherwise.
C21_ColourFollowsFinalScore ==
    nt_pc = "rendered" => nt_color = _get_severity_color(nt_score)

\* C22: every document store_anomalies hands to es.bulk has @timestamp,
\* text, score and a type among the 7 categories, and none of its keys has
\* the value None: sub_type, duration_ms, source_component and stack_trace
\* are there exactly when they have a value.
C22_DocumentsHaveNoNullField ==
    \A k \in DOMAIN bulk_docs :
        /\ {"@timestamp", "text", "score", "type"} \subseteq bulk_docs[k].present
        /\ bulk_docs[k].type \in Labels \cup {"UNKNOWN"}
        /\ bulk_docs[k].present \cap NoneValued(bulk_docs[k]) = {}
        /\ bulk_docs[k].present \cup NoneValued(bulk_docs[k]) = DocFields

\* A call wrote a JVM-pause document, which has duration_ms, next to one
\* that has neither duration_ms nor stack_trace.
C22_Witness ==
    /\ store_pc = "returned"
    /\ \E k \in DOMAIN bulk_docs :
        /\ "duration_ms" \in bulk_docs[k].present
        /\ bulk_docs[k].duration_ms = 20000
    /\ \E k \in DOMAIN bulk_docs :
        /\ {"duration_ms", "stack_trace"} \cap bulk_docs[k].present = {}
        /\ "sub_type" \in bulk_docs[k].present

\* C23: a record is in the result only once its entry's scoring,
\* classification and notification step are over, and then it has its text,
\* score, level, component and classification; the entry in progress and an
\* entry whose processing raised have no record.  (The timestamp of line 208
\* is written with the text and the score.)
C23_NoPartialRecord ==
    /\ \A r \in 1..Len(anomalies) :
        LET a == anomalies[r]
        IN /\ a.entry \in Finished
           /\ a.text # << >>
           /\ a.text = logs[a.entry]
           /\ a.score = scored[a.entry]
           /\ a.level \in LevelTokens \cup {"UNKNOWN"}
           /\ a.component # ""
           /\ a.entry \in classifier_calls
           /\ a.classification.category \in Labels \cup {"UNKNOWN"}
           /\ (a.score > 7000 /\ Routable(a.classification.category))
                 => \E s \in 1..Len(sends) : sends[s].entry = a.entry
    /\ pc \in {"classify", "notify"} => ~HasRecord(i)
    /\ \A k \in 1..Len(scored) : scored[k] = Raised => ~HasRecord(k)

\* C23 witness: the second entry is classified and about to be notified; the
\* result holds the finished record of the first entry and nothing of the
\* second.
C23_Witness ==
    /\ pc = "notify"
    /\ i = 2
    /\ anomaly.classification.category = "NETWORK"
    /\ HasRecord(1)
    /\ ~HasRecord(2)
    /\ Len(anomalies) = 1

\* The entry has a JVM pause of more than 5000 ms.
HasLongPause(log) ==
    /\ Contains(log, "JvmPauseMonitor")
    /\ Contains(log, "pause")
    /\ ApproxOf(log) > 5000

\* C24: an entry of level INFO or UNKNOWN without a JVM pause longer than
\* 5000 ms scores at most 0.25*0.7 + 0.3 = 0.475 whatever the sentiment: it
\* has no record, the classifier is not called for it and nothing is sent.
C24_InfoNeverQualifiesBySentiment ==
    \A k \in 1..Len(scored) :
        (/\ scored[k] # Raised
         /\ ~Contains(logs[k], "FATAL")
         /\ ~Contains(logs[k], "ERROR")
         /\ ~Contains(logs[k], "WARN")
         /\ ~HasLongPause(logs[k]))
        => /\ scored[k] <= 4750
           /\ ~HasRecord(k)
           /\ k \notin classifier_calls
           /\ \A s \in 1..Len(sends) : sends[s].entry # k

\* C24 witness: a finished call in which an INFO entry had the highest
\* sentiment, scored 0.475 and has no record, next to an INFO entry with a
\* 20000 ms pause that has one.
C24_Witness ==
    /\ pc = "done"
    /\ \E k \in Finished :
        /\ logs[k] = << InfoLine >>
        /\ scored[k] = 4750
        /\ ~HasRecord(k)
    /\ \E k \in Finished :
        /\ logs[k] = << PauseLine >>
        /\ HasRecord(k)

\* C26: no entry of process_logs holds a newline, so _parse_stack_trace is
\* None for each of them: no record has exception_type or stack_trace, and
\* every score is the one computed from the level, the sentiment and the JVM
\* pause alone, without the NullPointerException or IOException floor.
C26_NoEntryHasStackTrace ==
    /\ \A k \in 1..Len(logs) :
        /\ Len(logs[k]) = 1
        /\ ~IsInfo(_parse_stack_trace(logs[k]))
    /\ \A r \in 1..Len(anomalies) :
        /\ anomalies[r].exception_type = ""
        /\ anomalies[r].stack_trace = << >>
        /\ anomalies[r].type # "EXCEPTION"
    /\ \A k \in 1..Len(scored) :
        scored[k] # Raised =>
            scored[k] = _calculate_anomaly_score(
                            _extract_log_level(logs[k]),
                            SentimentGiven(StubDetector(stub.detector, logs[k])),
                            _parse_jvm_pause(logs[k]))

\* C26 witness: a call given a WARN line ending in NullPointerException and
\* the first line of its stack trace, with sentiment 0, has finished: two
\* entries, scored 0.35 and 0.175, and no record.
C26_Witness ==
    /\ pc = "done"
    /\ log_content = << NpeLine, TraceLine >>
    /\ stub.detector = "calm"
    /\ scored = << 3500, 1750 >>
    /\ anomalies = << >>

\* C25 (as stated): every non-empty list process_logs returns within the
\* consumer loop is given to store_anomalies, with or without a WebSocket.
C25_AnomaliesAlwaysPersisted ==
    co_anomalies # << >> => co_persisted = co_anomalies

\* C27 (as stated): the log_level store_raw_logs writes for a line is the
\* level LogProcessor gives that line.
C27_StoredLevelIsProcessorLevel ==
    \A k \in 1..Len(co_raw) :
        co_raw[k].log_level = _extract_log_level(co_raw[k].content)

\* C28 (as stated): the thread start() creates enters the consume loop and
\* stays alive until stop() is requested; it never ends before a first poll.
C28_StartedConsumerKeepsPolling ==
    _thread = "finished" => (co_polls >= 1 /\ _running /\ stop_coro # "none")

\* C30 (as stated): once the shutdown branch of lifespan has run, the
\* consumer's _running flag is False and the Kafka client is closed.
C30_ShutdownStopsConsumer ==
    app_pc = "stopped" => (~_running /\ client_closed)

\* C29 (as stated): while two connections run simulations on the shared
\* simulator, self.log_storage is neither None nor closed at the moment a
\* running task uses it, whatever the other simulation does.
C29_StorageUsableWhileRunning ==
    \A c \in Connections : used[c] \notin {"None", "closed"}
====
